---- MODULE Spec2Model ----
(***************************************************************************)
(* Verification model of the cross-repo validator                          *)
(* (src/scripts/cross_repo_validator.py) and of the QA repo checker        *)
(* (src/Ansible-Lockdown_QA_Repo_Check.py).                                *)
(*                                                                         *)
(* Text is modelled as sequences of one-character strings, so that the     *)
(* regular expressions of the source are modelled by what they match.      *)
(* Python's None is the one-element sequence <<"None">>, which no text     *)
(* over the alphabet equals.                                               *)
(***************************************************************************)
EXTENDS Integers, Sequences, FiniteSets, TLC

VARIABLES
    n_pc,        \* normalizer harness: which call was made last
    n_toggle,    \* argument `toggle` of toggle_to_rule_key
    n_prefix,    \* argument `prefix`
    n_rp,        \* argument `rule_id_prefix`
    n_type,      \* argument `benchmark_type`
    n_key,       \* a rule key: result of toggle_to_rule_key, or argument `key`
    n_back,      \* result of rule_key_to_toggle
    s_findings,     \* status harness: the findings list of one check
    s_warn_on_any,  \* status harness: the check's warn_on_any flag
    s_status,       \* status harness: _determine_status of s_findings
    fs,              \* validator: the two repositories on disk
    args,            \* validator: the parsed command line
    pc,              \* validator: the step main() is at
    m_prefix,          \* validator: main's local `prefix`
    m_benchmark_type,  \* validator: main's local `benchmark_type`
    m_rule_id_prefix,  \* validator: main's local `rule_id_prefix`
    data,            \* validator: the locals the extractors assign
    results,         \* validator: main's local `results`
    raised,          \* validator: the check an uncaught exception came from
    exit_code,       \* validator: the exit status of the process
    u_pc,        \* function harness: the function that was called last
    u_in,        \* function harness: its arguments
    u_out,       \* function harness: what it returned
    k_pc,          \* QA tool: the step main() is at
    k_cfg,         \* QA tool: command line and installed linters
    k_disk,        \* QA tool: the lines of each file of the role directory
    k_cache,       \* QA tool: RepoScanner._file_cache
    k_futures,     \* QA tool: the futures of _run_parallel_checks
    k_finished,    \* QA tool: the linter checks in the order they finished
    k_result_map,  \* QA tool: result_map of _run_parallel_checks
    k_results      \* QA tool: results of run_all_checks

nvars == <<n_pc, n_toggle, n_prefix, n_rp, n_type, n_key, n_back>>

svars == <<s_findings, s_warn_on_any, s_status>>

pvars == <<fs, args, pc, m_prefix, m_benchmark_type, m_rule_id_prefix, data, results,
           raised, exit_code>>

uvars == <<u_pc, u_in, u_out>>

kvars == <<k_pc, k_cfg, k_disk, k_cache, k_futures, k_finished, k_result_map,
           k_results>>

vars == <<nvars, svars, pvars, uvars, kvars>>

\* what the normalizer harness leaves alone, what the status harness does,
\* what the validator does, what the function harness does and what the QA
\* tool does
notNorm == <<svars, pvars, uvars, kvars>>

notStatus == <<nvars, pvars, uvars, kvars>>

notMain == <<nvars, svars, uvars, kvars>>

notUnit == <<nvars, svars, pvars, kvars>>

notScan == <<nvars, svars, pvars, uvars>>

----------------------------------------------------------------------------
(* Constants of the source *)

BENCHMARK_STIG == "stig"
BENCHMARK_CIS == "cis"

None == <<"None">>

\* a file is the sequence of its lines; a file that does not exist is the
\* one-line sequence <<None>>, which no file equals
NoFile == <<None>>

\* width of the numeric suffix, \d{6}
SuffixWidth == 6

----------------------------------------------------------------------------
(* Text helpers *)

DigitChars == {"0", "1", "2", "3", "4", "5", "6", "7", "8", "9"}

IsDigit(c) == c \in DigitChars

\* Python truthiness of an Optional[str]
Truthy(s) == s # None /\ s # <<>>

\* `$` of a Python regex without re.MULTILINE, after k characters of s were
\* consumed: the end of s, or just before a newline that ends s
AtDollar(s, k) ==
    \/ k = Len(s)
    \/ k = Len(s) - 1 /\ s[Len(s)] = "\n"

AllDigits(s, from, to) == \A i \in from..to : IsDigit(s[i])

UpperChars == {"A", "B", "C", "D", "E", "F", "G", "H", "I", "J", "K", "L", "M",
               "N", "O", "P", "Q", "R", "S", "T", "U", "V", "W", "X", "Y", "Z"}

LowerChars == {"a", "b", "c", "d", "e", "f", "g", "h", "i", "j", "k", "l", "m",
               "n", "o", "p", "q", "r", "s", "t", "u", "v", "w", "x", "y", "z"}

\* \w
WordChars == LowerChars \cup UpperChars \cup DigitChars \cup {"_"}

\* \s
SpaceChars == {" ", "\t", "\n", "\r"}

IsSpace(c) == c \in SpaceChars

Max(S) == CHOOSE x \in S : \A y \in S : x >= y

Min(S) == CHOOSE x \in S : \A y \in S : x <= y

\* the characters in code-point order, for Python's str comparison
CodeOrder ==
    <<"\t", "\n", "\r", " ", "!", "\"", "#", "'", "(", ")", "*", "+", "-",
      ".", "/", "0", "1", "2", "3", "4", "5", "6", "7", "8", "9", ":", "=",
      ">", "A", "B", "C", "D", "E", "F", "G", "H", "I", "J", "K", "L", "M",
      "N", "O", "P", "Q", "R", "S", "T", "U", "V", "W", "X", "Y", "Z", "[",
      "]", "_", "a", "b", "c", "d", "e", "f", "g", "h", "i", "j", "k", "l",
      "m", "n", "o", "p", "q", "r", "s", "t", "u", "v", "w", "x", "y", "z",
      "{", "|", "}">>

Ord(c) == CHOOSE i \in 1..Len(CodeOrder) : CodeOrder[i] = c

\* a < b for Python str
StrLess(a, b) ==
    \/ \E i \in 1..Len(a) :
          /\ i <= Len(b)
          /\ SubSeq(a, 1, i - 1) = SubSeq(b, 1, i - 1)
          /\ Ord(a[i]) < Ord(b[i])
    \/ Len(a) < Len(b) /\ a = SubSeq(b, 1, Len(a))

\* sorted(S) for a set of str
RECURSIVE Sorted(_)
Sorted(S) ==
    IF S = {} THEN <<>>
    ELSE LET m == CHOOSE x \in S : \A y \in S \ {x} : StrLess(x, y)
         IN  <<m>> \o Sorted(S \ {m})

\* s[from:] in Python's 0-based slices is Drop(s, from)
Drop(s, n) == SubSeq(s, n + 1, Len(s))

Take(s, n) == SubSeq(s, 1, n)

\* s.startswith(lit)
StartsWith(s, lit) == Len(s) >= Len(lit) /\ Take(s, Len(lit)) = lit

\* the length of the longest run of characters of class cls in s that
\* starts at position from (a greedy cls* of a regex)
RunLen(s, from, cls) ==
    LET stops == {i \in from..Len(s) : s[i] \notin cls} IN
    IF from > Len(s) THEN 0
    ELSE IF stops = {} THEN Len(s) - from + 1
    ELSE Min(stops) - from

\* the length of the trailing run of white space of s
SpaceTail(s) ==
    Cardinality({i \in 1..Len(s) : \A j \in i..Len(s) : IsSpace(s[j])})

\* str.rstrip()
RStrip(s) == Take(s, Len(s) - SpaceTail(s))

\* str.strip()
Strip(s) == LET r == RStrip(s) IN Drop(r, RunLen(r, 1, SpaceChars))

----------------------------------------------------------------------------
(* Identifier normalizer *)

\* re.match(rf"^{re.escape(prefix)}_(\d{{6}})$", toggle)
MatchStigToggle(toggle, prefix) ==
    LET n == Len(prefix) IN
    /\ Len(toggle) >= n + 1 + SuffixWidth
    /\ SubSeq(toggle, 1, n) = prefix
    /\ toggle[n + 1] = "_"
    /\ AllDigits(toggle, n + 2, n + 1 + SuffixWidth)
    /\ AtDollar(toggle, n + 1 + SuffixWidth)

toggle_to_rule_key(toggle, prefix, rule_id_prefix, benchmark_type) ==
    IF benchmark_type = BENCHMARK_CIS THEN toggle
    ELSE IF MatchStigToggle(toggle, prefix) /\ rule_id_prefix # <<>>
         THEN rule_id_prefix \o <<"-">>
              \o SubSeq(toggle, Len(prefix) + 2, Len(prefix) + 1 + SuffixWidth)
         ELSE <<>>

\* the start positions at which re.search(r"(\d{6})$", key) can match
SuffixStarts(key) ==
    {i \in 1..Len(key) :
        /\ i + SuffixWidth - 1 <= Len(key)
        /\ AllDigits(key, i, i + SuffixWidth - 1)
        /\ AtDollar(key, i + SuffixWidth - 1)}

\* mutant: the separator between prefix and suffix is left out
rule_key_to_toggle_NoSeparator(key, prefix, benchmark_type) ==
    IF benchmark_type = BENCHMARK_CIS THEN key
    ELSE IF SuffixStarts(key) # {}
         THEN LET i == Min(SuffixStarts(key)) IN
              prefix \o SubSeq(key, i, i + SuffixWidth - 1)
         ELSE <<>>

rule_key_to_toggle(key, prefix, benchmark_type) ==
    IF benchmark_type = BENCHMARK_CIS THEN key
    ELSE IF SuffixStarts(key) # {}
         THEN LET i == Min(SuffixStarts(key)) IN
              prefix \o <<"_">> \o SubSeq(key, i, i + SuffixWidth - 1)
         ELSE <<>>

----------------------------------------------------------------------------
(* Auto-detection helpers.  A file is NoFile when it does not exist, and the*)
(* sequence of its lines (without the line terminator) otherwise.          *)

\* m.group(1) of re.match(r"^([a-zA-Z_]\w*):", s), or None
DeclaredName(s) ==
    LET k == RunLen(s, 1, WordChars) IN
    IF /\ s # <<>>
       /\ s[1] \in LowerChars \cup UpperChars \cup {"_"}
       /\ k + 1 <= Len(s)
       /\ s[k + 1] = ":"
    THEN Take(s, k)
    ELSE None

\* the candidates of range(2, min(4, len(parts))): no vote for the first
\* segment alone
PrefixCandidates_SkipFirst(name) ==
    LET us == {q \in 1..Len(name) : name[q] = "_"}
        nth(i) == CHOOSE q \in us : Cardinality({r \in us : r <= q}) = i
        n == IF Cardinality(us) < 3 THEN Cardinality(us) ELSE 3
    IN  [i \in 1..(n - 1) |-> Take(name, nth(i + 1) - 1)]

\* lines 140-142
\* "_".join(name.split("_")[:i]) for i in range(1, min(4, len(parts))):
\* the text before the i-th underscore, for the first three underscores
PrefixCandidates(name) ==
    LET us == {q \in 1..Len(name) : name[q] = "_"}
        nth(i) == CHOOSE q \in us : Cardinality({r \in us : r <= q}) = i
        n == IF Cardinality(us) < 3 THEN Cardinality(us) ELSE 3
    IN  [i \in 1..n |-> Take(name, nth(i) - 1)]

\* counter[key] += 1 on a Counter kept in insertion order
CounterAdd(counter, key) ==
    IF \E i \in 1..Len(counter) : counter[i].key = key
    THEN [i \in 1..Len(counter) |->
            IF counter[i].key = key
            THEN [key |-> key, n |-> counter[i].n + 1]
            ELSE counter[i]]
    ELSE Append(counter, [key |-> key, n |-> 1])

RECURSIVE CounterAddAll(_, _)
CounterAddAll(counter, keys) ==
    IF keys = <<>> THEN counter
    ELSE CounterAddAll(CounterAdd(counter, Head(keys)), Tail(keys))

\* the votes of one line of defaults/main.yml
LineVotes(line) ==
    LET ln == RStrip(line) IN
    IF ln = <<>> \/ ln[1] = "#" \/ ln[1] \in {" ", "\t"} THEN <<>>
    ELSE IF DeclaredName(ln) = None THEN <<>>
    ELSE PrefixCandidates(DeclaredName(ln))

RECURSIVE CountVotes(_, _)
CountVotes(lines, counter) ==
    IF lines = <<>> THEN counter
    ELSE CountVotes(Tail(lines), CounterAddAll(counter, LineVotes(Head(lines))))

\* most_common that returns the last key with the highest count
MostCommon_LastSeen(counter) ==
    LET best == Max({counter[i].n : i \in 1..Len(counter)})
        last == Max({i \in 1..Len(counter) : counter[i].n = best})
    IN  counter[last].key

\* counter.most_common(1)[0][0]: the first key with the highest count
MostCommon(counter) ==
    LET best == Max({counter[i].n : i \in 1..Len(counter)})
        first == Min({i \in 1..Len(counter) : counter[i].n = best})
    IN  counter[first].key

auto_detect_prefix(defaults_file) ==
    IF defaults_file = NoFile THEN <<>>
    ELSE LET counter == CountVotes(defaults_file, <<>>) IN
         IF counter = <<>> THEN <<>> ELSE MostCommon(counter)

\* rule_pat.match(s): ^{prefix}_rule_\d
MatchRulePat(s, prefix) ==
    LET lit == prefix \o <<"_", "r", "u", "l", "e", "_">> IN
    /\ StartsWith(s, lit)
    /\ Len(s) > Len(lit)
    /\ IsDigit(s[Len(lit) + 1])

\* the length matched by ^{prefix}_\d{6}, or 0
StigHeadLen(s, prefix) ==
    LET n == Len(prefix) + 1 IN
    IF /\ StartsWith(s, prefix \o <<"_">>)
       /\ Len(s) >= n + SuffixWidth
       /\ AllDigits(s, n + 1, n + SuffixWidth)
    THEN n + SuffixWidth
    ELSE 0

\* \s*: after k matched characters
ColonAfter(s, k) ==
    LET j == k + RunLen(s, k + 1, SpaceChars) IN
    j + 1 <= Len(s) /\ s[j + 1] = ":"

\* stig_pat.match(s): ^{prefix}_\d{6}\s*:
MatchStigPat(s, prefix) ==
    StigHeadLen(s, prefix) > 0 /\ ColonAfter(s, StigHeadLen(s, prefix))

\* detect_benchmark_type where equal counts give CIS
detect_benchmark_type_TiesToCis(defaults_file, prefix) ==
    LET lines == IF defaults_file = NoFile THEN <<>> ELSE defaults_file
        cis_count == Cardinality({i \in 1..Len(lines) :
                        MatchRulePat(Strip(lines[i]), prefix)})
        stig_count == Cardinality({i \in 1..Len(lines) :
                        /\ ~MatchRulePat(Strip(lines[i]), prefix)
                        /\ MatchStigPat(Strip(lines[i]), prefix)})
    IN  IF cis_count >= stig_count THEN BENCHMARK_CIS ELSE BENCHMARK_STIG

\* cis_count and stig_count over the stripped lines; CIS only on a majority
detect_benchmark_type(defaults_file, prefix) ==
    LET lines == IF defaults_file = NoFile THEN <<>> ELSE defaults_file
        cis_count == Cardinality({i \in 1..Len(lines) :
                        MatchRulePat(Strip(lines[i]), prefix)})
        stig_count == Cardinality({i \in 1..Len(lines) :
                        /\ ~MatchRulePat(Strip(lines[i]), prefix)
                        /\ MatchStigPat(Strip(lines[i]), prefix)})
    IN  IF cis_count > stig_count THEN BENCHMARK_CIS ELSE BENCHMARK_STIG

\* a compiled toggle pattern is the pair it was built from
build_toggle_pattern(prefix, benchmark_type) ==
    [prefix |-> prefix, benchmark_type |-> benchmark_type]

\* the length matched by ^{prefix}_rule_[\d_]+, or 0
CisHeadLen(s, prefix) ==
    LET lit == prefix \o <<"_", "r", "u", "l", "e", "_">>
        k == RunLen(s, Len(lit) + 1, DigitChars \cup {"_"})
    IN  IF StartsWith(s, lit) /\ k >= 1 THEN Len(lit) + k ELSE 0

\* m.group(1) of toggle_pat.match(s), or None
ToggleMatch(toggle_pat, s) ==
    LET k == IF toggle_pat.benchmark_type = BENCHMARK_CIS
             THEN CisHeadLen(s, toggle_pat.prefix)
             ELSE StigHeadLen(s, toggle_pat.prefix)
    IN  IF k > 0 /\ ColonAfter(s, k) THEN Take(s, k) ELSE None

----------------------------------------------------------------------------
(* Extraction functions.  A dict is a function on its key set.             *)

EmptyMap == <<>>

\* mutant: FileNotFoundError is not caught, the call yields no map
extract_rule_toggles_Uncaught(file, toggle_pat) ==
    IF file = NoFile THEN None
    ELSE LET hit(i) == ToggleMatch(toggle_pat, Strip(file[i]))
             names == {hit(i) : i \in 1..Len(file)} \ {None}
         IN  [name \in names |-> Max({i \in 1..Len(file) : hit(i) = name})]

\* lines 284-298; except FileNotFoundError: pass leaves toggles empty
extract_rule_toggles(file, toggle_pat) ==
    IF file = NoFile THEN EmptyMap
    ELSE LET hit(i) == ToggleMatch(toggle_pat, Strip(file[i]))
             names == {hit(i) : i \in 1..Len(file)} \ {None}
         IN  [name \in names |-> Max({i \in 1..Len(file) : hit(i) = name})]

\* the lines of a file that may be missing (FileNotFoundError: no lines)
LinesOf(file) == IF file = NoFile THEN <<>> ELSE file

\* the index in s of the first occurrence of lit, or 0
FindSub(s, lit) ==
    LET at == {i \in 1..(Len(s) - Len(lit) + 1) :
                  SubSeq(s, i, i + Len(lit) - 1) = lit}
    IN  IF at = {} THEN 0 ELSE Min(at)

\* the characters after \s*:\s* that follows k matched characters, or None
\* when no colon follows
AfterColon(s, k) ==
    LET j == k + RunLen(s, k + 1, SpaceChars) IN
    IF j + 1 <= Len(s) /\ s[j + 1] = ":"
    THEN Drop(s, j + 1 + RunLen(s, j + 2, SpaceChars))
    ELSE None

extract_toggle_values(file, toggle_pat) ==
    LET lines == LinesOf(file)
        hit(i) == ToggleMatch(toggle_pat, Strip(lines[i]))
        names == {hit(i) : i \in 1..Len(lines)} \ {None}
    IN  [name \in names |->
            LET i == Max({j \in 1..Len(lines) : hit(j) = name})
                \* re.match(rf"^{var_name}\s*:\s*(\S+)", stripped)
                rest == AfterColon(Strip(lines[i]), Len(name))
                tok == LET k == CHOOSE k \in 0..Len(rest) :
                                /\ \A q \in 1..k : ~IsSpace(rest[q])
                                /\ (k = Len(rest) \/ IsSpace(rest[k + 1]))
                       IN  Take(rest, k)
            IN  <<tok, i>>]

\* _strip_yaml_value
_strip_yaml_value(raw) ==
    LET cut == FindSub(raw, <<" ", " ", "#">>)
        r1 == IF cut > 0 THEN Strip(Take(raw, cut - 1)) ELSE raw
    IN  IF Len(r1) >= 2 /\ r1[1] \in {"'", "\""} /\ r1[Len(r1)] = r1[1]
        THEN SubSeq(r1, 2, Len(r1) - 1)
        ELSE r1

\* config_pat.match(s): ^({prefix}_\w+)\s*:\s*(.+)$ gives <<name, value>>,
\* or None
ConfigMatch(s, prefix) ==
    LET lit == prefix \o <<"_">>
        k == RunLen(s, Len(lit) + 1, WordChars)
        rest == AfterColon(s, Len(lit) + k)
    IN  IF StartsWith(s, lit) /\ k >= 1 /\ rest # None /\ rest # <<>>
        THEN <<Take(s, Len(lit) + k), rest>>
        ELSE None

\* the recorded lines without the "Skip toggles" test
ConfigLines_KeepToggles(file, prefix, toggle_pat) ==
    LET lines == LinesOf(file) IN
    {i \in 1..Len(lines) :
        LET st == Strip(lines[i]) IN
        /\ st # <<>>
        /\ st[1] # "#"
        /\ ConfigMatch(st, prefix) # None}

\* lines 692-703
\* the lines of file that extract_config_variables and
\* extract_template_variables record
ConfigLines(file, prefix, toggle_pat) ==
    LET lines == LinesOf(file) IN
    {i \in 1..Len(lines) :
        LET st == Strip(lines[i]) IN
        /\ st # <<>>
        /\ st[1] # "#"
        /\ ToggleMatch(toggle_pat, st) = None
        /\ ConfigMatch(st, prefix) # None}

extract_config_variables(file, prefix, toggle_pat) ==
    LET lines == LinesOf(file)
        rec == ConfigLines(file, prefix, toggle_pat)
        m(i) == ConfigMatch(Strip(lines[i]), prefix)
    IN  [name \in {m(i)[1] : i \in rec} |->
            LET i == Max({j \in rec : m(j)[1] = name})
            IN  <<_strip_yaml_value(Strip(m(i)[2])), i>>]

extract_template_variables(file, prefix, toggle_pat) ==
    LET lines == LinesOf(file)
        rec == ConfigLines(file, prefix, toggle_pat)
        m(i) == ConfigMatch(Strip(lines[i]), prefix)
    IN  [name \in {m(i)[1] : i \in rec} |->
            LET i == Max({j \in rec : m(j)[1] = name})
                raw_val == Strip(m(i)[2])
                is_hardcoded == FindSub(raw_val, <<"{", "{">>) = 0
            IN  <<IF is_hardcoded THEN _strip_yaml_value(raw_val) ELSE raw_val,
                  is_hardcoded, i>>]

\* re.match(r"^(\w+)\s*:", stripped) on the non-empty, non-comment lines
extract_audit_vars_defined(file) ==
    LET lines == LinesOf(file) IN
    {Take(Strip(lines[i]), RunLen(Strip(lines[i]), 1, WordChars)) :
        i \in {j \in 1..Len(lines) :
                  LET st == Strip(lines[j])
                      k == RunLen(st, 1, WordChars)
                  IN  /\ st # <<>>
                      /\ st[1] # "#"
                      /\ k >= 1
                      /\ ColonAfter(st, k)}}

\* the length of the longest run of characters outside cls from position from
RunLenNot(s, from, cls) ==
    LET stops == {i \in from..Len(s) : s[i] \in cls} IN
    IF from > Len(s) THEN 0
    ELSE IF stops = {} THEN Len(s) - from + 1
    ELSE Min(stops) - from

\* m.group(1) of re.match(r"^benchmark_version:\s*['\"]?([^'\"#\n]+)", line),
\* or None.  When nothing follows the blanks (and the optional quote) the
\* regex backtracks and captures the last blank.
VersionCapture(line) ==
    LET lit == <<"b", "e", "n", "c", "h", "m", "a", "r", "k", "_",
                 "v", "e", "r", "s", "i", "o", "n", ":">>
        stop == {"'", "\"", "#", "\n"}
        sp == RunLen(line, Len(lit) + 1, SpaceChars)
        q == IF Len(line) > Len(lit) + sp /\ line[Len(lit) + sp + 1] \in {"'", "\""}
             THEN 1 ELSE 0
        start == Len(lit) + sp + q
        cap == RunLenNot(line, start + 1, stop)
    IN  IF ~StartsWith(line, lit) THEN None
        ELSE IF cap >= 1 THEN SubSeq(line, start + 1, start + cap)
        ELSE IF sp >= 1 /\ line[Len(lit) + sp] # "\n"
             THEN SubSeq(line, Len(lit) + sp,
                         Len(lit) + sp - 1 + RunLenNot(line, Len(lit) + sp, stop))
        ELSE None

\* m.group(1) of re.match(r"^BENCHMARK_VER\s*=\s*([^\s#]+)", line), or None
RunAuditCapture(line) ==
    LET lit == <<"B", "E", "N", "C", "H", "M", "A", "R", "K", "_", "V", "E", "R">>
        j == Len(lit) + RunLen(line, Len(lit) + 1, SpaceChars)
        k == j + 1 + RunLen(line, j + 2, SpaceChars)
        cap == RunLenNot(line, k + 1, SpaceChars \cup {"#"})
    IN  IF StartsWith(line, lit) /\ j + 1 <= Len(line) /\ line[j + 1] = "="
           /\ cap >= 1
        THEN SubSeq(line, k + 1, k + cap)
        ELSE None

\* the stripped capture of the first line of file that Capture matches, or
\* None (missing file, or no such line)
FirstCapture(file, Capture(_)) ==
    LET lines == LinesOf(file)
        at == {i \in 1..Len(lines) : Capture(lines[i]) # None}
    IN  IF at = {} THEN None ELSE Strip(Capture(lines[Min(at)]))

\* "defaults/main.yml"
DEFAULTS_LOC ==
    <<"d", "e", "f", "a", "u", "l", "t", "s", "/", "m", "a", "i", "n", ".",
      "y", "m", "l">>

\* "run_audit.sh"
RUN_AUDIT_LOC ==
    <<"r", "u", "n", "_", "a", "u", "d", "i", "t", ".", "s", "h">>

\* versions, in insertion order, as pairs <<location, raw string>>
extract_versions(defaults_file, audit_vars_file, run_audit_file, audit_vars_name) ==
    LET d == FirstCapture(defaults_file, VersionCapture)
        a == FirstCapture(audit_vars_file, VersionCapture)
        r == FirstCapture(run_audit_file, RunAuditCapture)
    IN  (IF d = None THEN <<>> ELSE <<(<<DEFAULTS_LOC, d>>)>>)
        \o (IF a = None THEN <<>> ELSE <<(<<audit_vars_name, a>>)>>)
        \o (IF r = None THEN <<>> ELSE <<(<<RUN_AUDIT_LOC, r>>)>>)

\* the value of a run of decimal digits
RECURSIVE DigitsValue(_)
DigitsValue(ds) ==
    IF ds = <<>> THEN 0
    ELSE 10 * DigitsValue(Take(ds, Len(ds) - 1))
         + (CHOOSE v \in 0..9 :
               <<"0", "1", "2", "3", "4", "5", "6", "7", "8", "9">>[v + 1]
                   = ds[Len(ds)])

\* CPython (3.11 and later) refuses to convert a str of more than this many
\* digits to int: int() raises ValueError
INT_MAX_STR_DIGITS == 4300

\* int(p): blanks around, an optional sign, digits with single underscores
\* between them; <<TRUE, value>>, or <<FALSE, 0>> for ValueError
ParseInt(p) ==
    LET t == Strip(p)
        sign == IF t # <<>> /\ t[1] \in {"+", "-"} THEN 1 ELSE 0
        body == Drop(t, sign)
        ds == SelectSeq(body, IsDigit)
        ok == /\ body # <<>>
              /\ \A i \in 1..Len(body) : body[i] \in DigitChars \cup {"_"}
              /\ body[1] # "_" /\ body[Len(body)] # "_"
              /\ \A i \in 1..(Len(body) - 1) : ~(body[i] = "_" /\ body[i + 1] = "_")
              /\ Len(ds) <= INT_MAX_STR_DIGITS
    IN  IF ~ok THEN <<FALSE, 0>>
        ELSE <<TRUE, IF sign = 1 /\ t[1] = "-" THEN 0 - DigitsValue(ds)
                     ELSE DigitsValue(ds)>>

\* s.split(sep) for a one-character sep
RECURSIVE Split(_, _)
Split(s, sep) ==
    LET at == {i \in 1..Len(s) : s[i] = sep} IN
    IF at = {} THEN <<s>>
    ELSE <<Take(s, Min(at) - 1)>> \o Split(Drop(s, Min(at)), sep)

\* the groups of re.match(r"^(\d+)[rR](\d+)$", raw.strip().lstrip("vV")), or
\* <<>> when it does not match
StigVersionGroups(raw) ==
    LET r0 == Strip(raw)
        r == Drop(r0, RunLen(r0, 1, {"v", "V"}))
        a == RunLen(r, 1, DigitChars)
        b == RunLen(r, a + 2, DigitChars)
    IN  IF /\ a >= 1 /\ a + 1 <= Len(r) /\ r[a + 1] \in {"r", "R"}
           /\ b >= 1 /\ AtDollar(r, a + 1 + b)
        THEN <<Take(r, a), SubSeq(r, a + 2, a + 1 + b)>>
        ELSE <<>>

\* normalize_version(raw) raises: the int() calls of the v{major}r{minor}
\* branch are outside the try block
normalize_version_raises(raw) ==
    \E i \in 1..Len(StigVersionGroups(raw)) :
        Len(StigVersionGroups(raw)[i]) > INT_MAX_STR_DIGITS

\* the value normalize_version(raw) returns when it does not raise
normalize_version(raw) ==
    LET r0 == Strip(raw)
        r == Drop(r0, RunLen(r0, 1, {"v", "V"}))
        a == RunLen(r, 1, DigitChars)
        b == RunLen(r, a + 2, DigitChars)
        stig == StigVersionGroups(raw) # <<>>
        parts == Split(r, ".")
    IN  IF stig
        THEN <<DigitsValue(Take(r, a)), DigitsValue(SubSeq(r, a + 2, a + 1 + b))>>
        ELSE IF \A i \in 1..Len(parts) : ParseInt(parts[i])[1]
             THEN [i \in 1..Len(parts) |-> ParseInt(parts[i])[2]]
             ELSE <<>>

----------------------------------------------------------------------------
(* The audit tree.  The audit directory is a set of files, each            *)
(*   [dir, rank, fname, readable, if_vars, rule_id, meta_id, meta_cat,     *)
(*    var_refs, opens, closes]                                            *)
(* where dir is the directory that holds the file, relative to the audit   *)
(* directory (cat_1, or cat_1/linux one level further down), rank is the   *)
(* place of a nested directory in the order the operating system lists the *)
(* directories beside it (0 for a file right under cat_1: os.walk sorts    *)
(* nothing, the code sorts only the file names of one directory), and the  *)
(* other fields say what the regular expressions of the                    *)
(* extractors find in its lines: if_vars the names after "{{ if .Vars."    *)
(* in line order, rule_id, meta_id and meta_cat the first Rule_ID:,        *)
(* STIG_ID: and Cat: values (None, NoneInt when absent), var_refs every    *)
(* name after ".Vars.", opens and closes the numbers of if/range and end   *)
(* markers.                                                                *)

NoneInt == 0 - 1

YML == <<".", "y", "m", "l">>

EndsWith(s, lit) ==
    Len(s) >= Len(lit) /\ SubSeq(s, Len(s) - Len(lit) + 1, Len(s)) = lit

\* os.path.relpath(os.path.join(root, fname), audit_dir)
RelPath(f) == f.dir \o <<"/">> \o f.fname

\* the entry of the audit directory that a directory lies in
TopDir(dir) ==
    LET cut == {i \in 1..Len(dir) : dir[i] = "/"} IN
    IF cut = {} THEN dir ELSE Take(dir, Min(cut) - 1)

\* _find_audit_subdirs: the sorted subdirectories named cat_* or section_*
_find_audit_subdirs(tree) ==
    Sorted({TopDir(f.dir) : f \in {g \in tree :
        \/ StartsWith(g.dir, <<"c", "a", "t", "_">>)
        \/ StartsWith(g.dir, <<"s", "e", "c", "t", "i", "o", "n", "_">>)}})

\* for fname in sorted(files) of one directory
RECURSIVE FilesIn(_, _, _)
FilesIn(tree, dir, names) ==
    IF names = <<>> THEN <<>>
    ELSE <<CHOOSE f \in tree : f.dir = dir /\ f.fname = Head(names)>>
         \o FilesIn(tree, dir, Tail(names))

RECURSIVE WalkDirs(_, _)
WalkDirs(tree, dirs) ==
    IF dirs = <<>> THEN <<>>
    ELSE FilesIn(tree, Head(dirs),
                 Sorted({f.fname : f \in {g \in tree : g.dir = Head(dirs)}}))
         \o WalkDirs(tree, Tail(dirs))

\* the directories in the order the operating system lists them
RECURSIVE ListingOrder(_, _)
ListingOrder(tree, dirs) ==
    IF dirs = {} THEN <<>>
    ELSE LET rank(d) == (CHOOSE f \in tree : f.dir = d).rank
             first == CHOOSE d \in dirs : \A e \in dirs : rank(d) <= rank(e)
         IN  <<first>> \o ListingOrder(tree, dirs \ {first})

\* the directories os.walk(top) visits: top, then the directories nested in
\* it, in listing order
os_walk(tree, top) ==
    LET under == {f.dir : f \in {g \in tree : TopDir(g.dir) = top}} IN
    (IF top \in under THEN <<top>> ELSE <<>>)
        \o ListingOrder(tree, under \ {top})

\* for subdir in subdirs: for root, _dirs, files in os.walk(subdir):
\* for fname in sorted(files)
RECURSIVE WalkTrees(_, _)
WalkTrees(tree, subdirs) ==
    IF subdirs = <<>> THEN <<>>
    ELSE WalkDirs(tree, os_walk(tree, Head(subdirs)))
         \o WalkTrees(tree, Tail(subdirs))

\* the .yml files under the audit subdirectories, in traversal order
AuditWalk(tree) ==
    SelectSeq(WalkTrees(tree, _find_audit_subdirs(tree)),
              LAMBDA f : EndsWith(f.fname, YML))

\* the length matched by ^[A-Z]+-\d+ when -\d{6} follows, or 0
RuleKeyHeadLen(s) ==
    LET a == RunLen(s, 1, UpperChars)
        b == RunLen(s, a + 2, DigitChars)
        n == a + 1 + b
    IN  IF /\ a >= 1 /\ Len(s) > a /\ s[a + 1] = "-" /\ b >= 1
           /\ Len(s) >= n + 1 + SuffixWidth
           /\ s[n + 1] = "-"
           /\ AllDigits(s, n + 2, n + 1 + SuffixWidth)
        THEN n
        ELSE 0

\* re.match(r"^[A-Z]+-\d+-\d{6}$", stem)
IsRuleKeyShape(stem) ==
    /\ RuleKeyHeadLen(stem) > 0
    /\ AtDollar(stem, RuleKeyHeadLen(stem) + 1 + SuffixWidth)

\* m.group(1) of re.match(r"^([A-Z]+-\d+)-\d{6}\.yml$", fname), or None
RuleIdPrefixOf(fname) ==
    LET n == RuleKeyHeadLen(fname) IN
    IF /\ n > 0
       /\ StartsWith(Drop(fname, n + 1 + SuffixWidth), YML)
       /\ AtDollar(fname, n + 1 + SuffixWidth + Len(YML))
    THEN Take(fname, n)
    ELSE None

CAT_DIRS ==
    <<(<<"c", "a", "t", "_", "1">>), (<<"c", "a", "t", "_", "2">>),
      (<<"c", "a", "t", "_", "3">>)>>

auto_detect_rule_id_prefix(tree) ==
    LET present == SelectSeq(CAT_DIRS,
                             LAMBDA c : \E f \in tree : TopDir(f.dir) = c)
        hits == SelectSeq(WalkTrees(tree, present),
                    LAMBDA f : EndsWith(f.fname, YML)
                               /\ RuleIdPrefixOf(f.fname) # None)
    IN  IF hits = <<>> THEN <<>> ELSE RuleIdPrefixOf(hits[1].fname)

\* a compiled conditional pattern is the pair it was built from
build_conditional_pattern(prefix, benchmark_type) ==
    [prefix |-> prefix, benchmark_type |-> benchmark_type]

\* m.group(1) of cond_pat.search on a marker "{{ if .Vars.<name>", or None
CondMatch(cond_pat, name) ==
    LET k == IF cond_pat.benchmark_type = BENCHMARK_CIS
             THEN CisHeadLen(name, cond_pat.prefix)
             ELSE StigHeadLen(name, cond_pat.prefix)
    IN  IF k > 0 THEN Take(name, k) ELSE None

\* the toggles the conditionals of one file reference, in line order
CondToggles(cond_pat, f) ==
    IF ~f.readable THEN <<>>
    ELSE SelectSeq([i \in 1..Len(f.if_vars) |-> CondMatch(cond_pat, f.if_vars[i])],
                   LAMBDA t : t # None)

SeqToSet(q) == {q[i] : i \in 1..Len(q)}

extract_audit_conditionals(tree, cond_pat) ==
    LET walk == AuditWalk(tree)
        refs(i) == SeqToSet(CondToggles(cond_pat, walk[i]))
    IN  [t \in UNION {refs(i) : i \in 1..Len(walk)} |->
            RelPath(walk[Max({i \in 1..Len(walk) : t \in refs(i)})])]

\* os.path.splitext(fname)[0] of a name that ends in ".yml"
Stem(fname) ==
    LET root == Take(fname, Len(fname) - Len(YML)) IN
    IF \A i \in 1..Len(root) : root[i] = "." THEN fname ELSE root

\* int(m.group(1)) of re.search(r"cat_(\d)", rel), or NoneInt
DirCat(rel) ==
    LET at == {i \in 1..(Len(rel) - 4) :
                  /\ SubSeq(rel, i, i + 3) = <<"c", "a", "t", "_">>
                  /\ IsDigit(rel[i + 4])}
    IN  IF at = {} THEN NoneInt ELSE DigitsValue(<<rel[Min(at) + 4]>>)

\* the key and the AuditInfo extract_audit_files derives from one file
AuditEntry(f, benchmark_type, prefix) ==
    LET stem == Stem(f.fname)
        conds == CondToggles(build_conditional_pattern(prefix, benchmark_type), f)
        toggle_from_conditional == IF conds = <<>> THEN None ELSE conds[1]
        key == IF benchmark_type = BENCHMARK_STIG
               THEN IF IsRuleKeyShape(stem) THEN stem
                    ELSE IF Truthy(f.meta_id) THEN f.meta_id ELSE stem
               ELSE IF Truthy(toggle_from_conditional)
                    THEN toggle_from_conditional ELSE stem
    IN  [key |-> key,
         info |-> [file |-> RelPath(f), cat |-> DirCat(RelPath(f)),
                   meta_cat |-> f.meta_cat, rule_id |-> f.rule_id,
                   meta_id |-> f.meta_id, toggle |-> toggle_from_conditional]]

GOSS_YML == <<"g", "o", "s", "s", ".", "y", "m", "l">>

MAIN_YML == <<"m", "a", "i", "n", ".", "y", "m", "l">>

\* the files extract_audit_files and check_goss_block_pairing read
AuditTestFiles(tree) ==
    SelectSeq(AuditWalk(tree),
              LAMBDA f : f.fname \notin {GOSS_YML, MAIN_YML} /\ f.readable)

extract_audit_files(tree, benchmark_type, prefix) ==
    LET walk == AuditTestFiles(tree)
        e(i) == AuditEntry(walk[i], benchmark_type, prefix)
        stored == {i \in 1..Len(walk) : e(i).key # <<>>}
    IN  [k \in {e(i).key : i \in stored} |->
            e(Max({i \in stored : e(i).key = k})).info]

extract_goss_var_references(tree) ==
    LET walk == SelectSeq(AuditWalk(tree), LAMBDA f : f.readable) IN
    [v \in UNION {walk[i].var_refs : i \in 1..Len(walk)} |->
        {RelPath(walk[i]) : i \in {j \in 1..Len(walk) : v \in walk[j].var_refs}}]

----------------------------------------------------------------------------
(* The task tree.  The tasks directory is a set of files                   *)
(*   [dir, fname, readable, lines]                                         *)
(* where dir is cat_1, cat_2 or cat_3 and lines are the lines of the file. *)

TASKS == <<"t", "a", "s", "k", "s">>

\* os.path.relpath(fpath, os.path.dirname(tasks_dir))
TaskRelPath(f) == TASKS \o <<"/">> \o f.dir \o <<"/">> \o f.fname

CaseGap == Ord("a") - Ord("A")

ToUpper(c) == IF c \in LowerChars THEN CodeOrder[Ord(c) - CaseGap] ELSE c

\* str.upper()
Upper(s) == [i \in 1..Len(s) |-> ToUpper(s[i])]

\* dict item assignment
Put(m, k, v) == [x \in DOMAIN m \cup {k} |-> IF x = k THEN v ELSE m[x]]

\* m.group(1) of re.search(rf"({rule_id_prefix}-\d{{6}})", s, re.IGNORECASE),
\* or None
NamePatSearch(s, rule_id_prefix) ==
    LET lit == Upper(rule_id_prefix \o <<"-">>)
        n == Len(lit)
        at == {i \in 1..(Len(s) - n - SuffixWidth + 1) :
                  /\ Upper(SubSeq(s, i, i + n - 1)) = lit
                  /\ AllDigits(s, i + n, i + n + SuffixWidth - 1)}
    IN  IF at = {} THEN None
        ELSE SubSeq(s, Min(at), Min(at) + n + SuffixWidth - 1)

\* m.group(1) of re.search(rf"({prefix}_rule_[\d_]+)", s), or None
WhenPatSearch(s, prefix) ==
    LET at == {i \in 1..Len(s) : CisHeadLen(Drop(s, i - 1), prefix) > 0} IN
    IF at = {} THEN None
    ELSE SubSeq(s, Min(at),
                Min(at) + CisHeadLen(Drop(s, Min(at) - 1), prefix) - 1)

\* when_pat.fullmatch(s)
WhenPatFullMatch(s, prefix) ==
    CisHeadLen(s, prefix) > 0 /\ CisHeadLen(s, prefix) = Len(s)

\* the length matched by SV-\d+r\d+_rule at the start of s, or 0
RuleIdLen(s) ==
    LET a == RunLen(s, 4, DigitChars)
        b == RunLen(s, 5 + a, DigitChars)
    IN  IF /\ StartsWith(s, <<"S", "V", "-">>)
           /\ a >= 1
           /\ Len(s) >= 4 + a /\ s[4 + a] = "r"
           /\ b >= 1
           /\ StartsWith(Drop(s, 4 + a + b), <<"_", "r", "u", "l", "e">>)
        THEN 4 + a + b + 5
        ELSE 0

\* m.group(1) of re.search(r"(SV-\d+r\d+_rule)", s), or None
RuleIdSearch(s) ==
    LET at == {i \in 1..Len(s) : RuleIdLen(Drop(s, i - 1)) > 0} IN
    IF at = {} THEN None
    ELSE SubSeq(s, Min(at), Min(at) + RuleIdLen(Drop(s, Min(at) - 1)) - 1)

\* stripped.startswith("- name:") or stripped.startswith("name:")
IsNameLine(stripped) ==
    \/ StartsWith(stripped, <<"-", " ", "n", "a", "m", "e", ":">>)
    \/ StartsWith(stripped, <<"n", "a", "m", "e", ":">>)

WHEN == <<"w", "h", "e", "n", ":">>

\* the rule key one line of a task file declares, or None
TaskLineKey(stripped, benchmark_type, prefix, rule_id_prefix) ==
    IF benchmark_type = BENCHMARK_STIG /\ rule_id_prefix # <<>>
    THEN IF IsNameLine(stripped) /\ NamePatSearch(stripped, rule_id_prefix) # None
         THEN Upper(NamePatSearch(stripped, rule_id_prefix))
         ELSE None
    ELSE IF benchmark_type = BENCHMARK_CIS
    THEN IF FindSub(stripped, WHEN) > 0 \/ IsNameLine(stripped)
         THEN WhenPatSearch(stripped, prefix)
         ELSE IF WhenPatFullMatch(stripped, prefix) THEN stripped ELSE None
    ELSE None

\* one iteration of the line loop: st is [map, cur], the task_map and the
\* current_key
TaskLine(st, line, benchmark_type, prefix, rule_id_prefix, cat_num, rel) ==
    LET stripped == Strip(line)
        key == TaskLineKey(stripped, benchmark_type, prefix, rule_id_prefix)
        cur == IF key # None THEN key ELSE st.cur
        map1 == IF key # None /\ key \notin DOMAIN st.map
                THEN Put(st.map, key,
                         [rule_id |-> None, cat |-> cat_num, file |-> rel])
                ELSE st.map
        rid == RuleIdSearch(stripped)
        map2 == IF /\ Truthy(cur) /\ cur \in DOMAIN map1
                   /\ rid # None /\ map1[cur].rule_id = None
                THEN Put(map1, cur, [map1[cur] EXCEPT !.rule_id = rid])
                ELSE map1
    IN  [map |-> map2, cur |-> cur]

RECURSIVE TaskLines(_, _, _, _, _, _, _)
TaskLines(st, lines, benchmark_type, prefix, rule_id_prefix, cat_num, rel) ==
    IF lines = <<>> THEN st
    ELSE TaskLines(TaskLine(st, Head(lines), benchmark_type, prefix,
                            rule_id_prefix, cat_num, rel),
                   Tail(lines), benchmark_type, prefix, rule_id_prefix,
                   cat_num, rel)

\* int(cat.split("_")[1])
CatNum(dir) == DigitsValue(Drop(dir, 4))

\* the task files the extractor and the severity check read, in order
TaskWalk(tree) ==
    SelectSeq(WalkDirs(tree, SelectSeq(CAT_DIRS,
                                LAMBDA c : \E f \in tree : f.dir = c)),
              LAMBDA f : EndsWith(f.fname, YML) /\ f.fname # MAIN_YML
                         /\ f.readable)

RECURSIVE TaskFiles(_, _, _, _, _)
TaskFiles(map, files, benchmark_type, prefix, rule_id_prefix) ==
    IF files = <<>> THEN map
    ELSE TaskFiles(TaskLines([map |-> map, cur |-> None], Head(files).lines,
                             benchmark_type, prefix, rule_id_prefix,
                             CatNum(Head(files).dir),
                             TaskRelPath(Head(files))).map,
                   Tail(files), benchmark_type, prefix, rule_id_prefix)

extract_task_data(tree, benchmark_type, prefix, rule_id_prefix) ==
    TaskFiles(EmptyMap, TaskWalk(tree), benchmark_type, prefix, rule_id_prefix)

----------------------------------------------------------------------------
(* Data model and status derivation *)

Severities == {"error", "warning", "info"}

Finding(file, line, description, severity, check_name) ==
    [file |-> file, line |-> line, description |-> description,
     severity |-> severity, check_name |-> check_name]

CheckResult(name, status, findings, summary) ==
    [name |-> name, status |-> status, findings |-> findings,
     summary |-> summary]

\* any(f.severity == sev for f in findings)
AnySeverity(findings, sev) ==
    \E i \in 1..Len(findings) : findings[i].severity = sev

\* mutant: the warn_on_any flag is ignored
determine_status_NoWarnOnAny(findings, warn_on_any) ==
    IF AnySeverity(findings, "error") THEN "FAIL"
    ELSE IF AnySeverity(findings, "warning") THEN "WARN"
    ELSE "PASS"

\* mutant: only the newest finding decides
determine_status_LastOnly(findings, warn_on_any) ==
    IF findings = <<>> THEN "PASS"
    ELSE LET sev == findings[Len(findings)].severity IN
         IF sev = "error" THEN "FAIL"
         ELSE IF warn_on_any \/ sev = "warning" THEN "WARN"
         ELSE "PASS"

_determine_status(findings, warn_on_any) ==
    IF AnySeverity(findings, "error") THEN "FAIL"
    ELSE IF warn_on_any /\ Len(findings) > 0 THEN "WARN"
    ELSE IF AnySeverity(findings, "warning") THEN "WARN"
    ELSE "PASS"

----------------------------------------------------------------------------
(* The fourteen checks.  Each returns a CheckResult; the findings are in   *)
(* the order the code appends them.  A description is the f-string's text  *)
(* with {} for each substitution, and the substituted values.              *)

Desc(template, values) == [template |-> template, args |-> values]

RECURSIVE Flatten(_)
Flatten(ss) == IF ss = <<>> THEN <<>> ELSE Head(ss) \o Flatten(Tail(ss))

\* the findings a loop appends: Body(x) for x in xs, in order
Collect(xs, Body(_)) == Flatten([i \in 1..Len(xs) |-> Body(xs[i])])

\* str(n) for n >= 0
RECURSIVE Str(_)
Str(n) ==
    IF n < 10 THEN <<CodeOrder[Ord("0") + n]>>
    ELSE Str(n \div 10) \o <<CodeOrder[Ord("0") + (n % 10)]>>

\* f"{len(findings)} issue(s)"
IssueSummary(findings) == Desc("{} issue(s)", <<Str(Len(findings))>>)

TEMPLATE_LOC ==
    <<"t", "e", "m", "p", "l", "a", "t", "e", "s", "/", "a", "n", "s", "i",
      "b", "l", "e", "_", "v", "a", "r", "s", "_", "g", "o", "s", "s", ".",
      "y", "m", "l", ".", "j", "2">>

AUDIT_FILES_LOC ==
    <<"(", "a", "u", "d", "i", "t", " ", "f", "i", "l", "e", "s", ")">>

AUDIT_TEST_FILES_LOC ==
    <<"(", "a", "u", "d", "i", "t", " ", "t", "e", "s", "t", " ", "f", "i",
      "l", "e", "s", ")">>

\* mutant: the audit-conditional branch does not ask that the toggle is
\* declared in defaults
check_rule_toggle_sync_AnyMissing(defaults_toggles, template_toggles, audit_vars_toggles, audit_conditionals, audit_vars_name) ==
    LET all_keys == DOMAIN defaults_toggles \cup DOMAIN template_toggles
                    \cup DOMAIN audit_vars_toggles \cup DOMAIN audit_conditionals
        F(file, line, description) ==
            <<Finding(file, line, description, "warning", "rule_toggle_sync")>>
        one(key) ==
            LET in_defaults == key \in DOMAIN defaults_toggles
                in_template == key \in DOMAIN template_toggles
                in_vars == key \in DOMAIN audit_vars_toggles
                in_audit == key \in DOMAIN audit_conditionals
            IN  (IF in_defaults /\ ~in_template
                 THEN F(TEMPLATE_LOC, 0,
                        Desc("In defaults but missing from goss template: '{}'",
                             <<key>>))
                 ELSE <<>>)
                \o (IF in_defaults /\ ~in_vars
                    THEN F(audit_vars_name, 0,
                           Desc("In defaults but missing from {}: '{}'",
                                <<audit_vars_name, key>>))
                    ELSE <<>>)
                \o (IF ~in_audit
                    THEN F(AUDIT_FILES_LOC, 0,
                           Desc("In defaults but no audit conditional found: '{}'",
                                <<key>>))
                    ELSE <<>>)
                \o (IF ~in_defaults /\ in_template
                    THEN F(TEMPLATE_LOC, template_toggles[key],
                           Desc("In goss template but missing from defaults: '{}'",
                                <<key>>))
                    ELSE <<>>)
                \o (IF ~in_defaults /\ in_vars
                    THEN F(audit_vars_name, audit_vars_toggles[key],
                           Desc("In {} but missing from defaults: '{}'",
                                <<audit_vars_name, key>>))
                    ELSE <<>>)
                \o (IF ~in_defaults /\ in_audit
                    THEN F(audit_conditionals[key], 0,
                           Desc("In audit conditional but missing from defaults: '{}'",
                                <<key>>))
                    ELSE <<>>)
        findings == Collect(Sorted(all_keys), one)
    IN  CheckResult("Rule Toggle Sync", _determine_status(findings, TRUE),
                    findings, IssueSummary(findings))

\* lines 833-902
check_rule_toggle_sync(defaults_toggles, template_toggles, audit_vars_toggles, audit_conditionals, audit_vars_name) ==
    LET all_keys == DOMAIN defaults_toggles \cup DOMAIN template_toggles
                    \cup DOMAIN audit_vars_toggles \cup DOMAIN audit_conditionals
        F(file, line, description) ==
            <<Finding(file, line, description, "warning", "rule_toggle_sync")>>
        one(key) ==
            LET in_defaults == key \in DOMAIN defaults_toggles
                in_template == key \in DOMAIN template_toggles
                in_vars == key \in DOMAIN audit_vars_toggles
                in_audit == key \in DOMAIN audit_conditionals
            IN  (IF in_defaults /\ ~in_template
                 THEN F(TEMPLATE_LOC, 0,
                        Desc("In defaults but missing from goss template: '{}'",
                             <<key>>))
                 ELSE <<>>)
                \o (IF in_defaults /\ ~in_vars
                    THEN F(audit_vars_name, 0,
                           Desc("In defaults but missing from {}: '{}'",
                                <<audit_vars_name, key>>))
                    ELSE <<>>)
                \o (IF in_defaults /\ ~in_audit
                    THEN F(AUDIT_FILES_LOC, 0,
                           Desc("In defaults but no audit conditional found: '{}'",
                                <<key>>))
                    ELSE <<>>)
                \o (IF ~in_defaults /\ in_template
                    THEN F(TEMPLATE_LOC, template_toggles[key],
                           Desc("In goss template but missing from defaults: '{}'",
                                <<key>>))
                    ELSE <<>>)
                \o (IF ~in_defaults /\ in_vars
                    THEN F(audit_vars_name, audit_vars_toggles[key],
                           Desc("In {} but missing from defaults: '{}'",
                                <<audit_vars_name, key>>))
                    ELSE <<>>)
                \o (IF ~in_defaults /\ in_audit
                    THEN F(audit_conditionals[key], 0,
                           Desc("In audit conditional but missing from defaults: '{}'",
                                <<key>>))
                    ELSE <<>>)
        findings == Collect(Sorted(all_keys), one)
    IN  CheckResult("Rule Toggle Sync", _determine_status(findings, TRUE),
                    findings, IssueSummary(findings))

\* default_keys without the "if key:" guard: an unmappable toggle adds the
\* empty string as a key
default_keys_Unguarded(defaults_toggles, prefix, rule_id_prefix, benchmark_type) ==
    {toggle_to_rule_key(toggle, prefix, rule_id_prefix, benchmark_type) :
        toggle \in DOMAIN defaults_toggles}

\* the set of rule keys check_audit_coverage builds from defaults: a toggle
\* that maps to the empty string adds nothing
default_keys(defaults_toggles, prefix, rule_id_prefix, benchmark_type) ==
    {key \in {toggle_to_rule_key(toggle, prefix, rule_id_prefix, benchmark_type) :
                 toggle \in DOMAIN defaults_toggles} : key # <<>>}

check_audit_coverage(defaults_toggles, audit_files, prefix, rule_id_prefix, benchmark_type) ==
    LET dkeys == default_keys(defaults_toggles, prefix, rule_id_prefix,
                              benchmark_type)
        audit_keys == DOMAIN audit_files
        no_audit(key) ==
            LET toggle == rule_key_to_toggle(key, prefix, benchmark_type) IN
            <<Finding(DEFAULTS_LOC,
                      IF toggle \in DOMAIN defaults_toggles
                      THEN defaults_toggles[toggle] ELSE 0,
                      Desc("Rule has no audit file: '{}'", <<key>>),
                      "warning", "audit_coverage")>>
        no_toggle(key) ==
            <<Finding(audit_files[key].file, 0,
                      Desc("Audit file exists but no rule toggle in defaults: '{}'",
                           <<key>>),
                      "warning", "audit_coverage")>>
        findings == Collect(Sorted(dkeys \ audit_keys), no_audit)
                    \o Collect(Sorted(audit_keys \ dkeys), no_toggle)
    IN  CheckResult("Audit File Coverage", _determine_status(findings, TRUE),
                    findings, IssueSummary(findings))

check_rule_id_match(task_data, audit_files) ==
    LET common == DOMAIN task_data \cap DOMAIN audit_files
        one(sid) ==
            LET task_rid == task_data[sid].rule_id
                audit_rid == audit_files[sid].rule_id
            IN  IF Truthy(task_rid) /\ Truthy(audit_rid) /\ task_rid # audit_rid
                THEN <<Finding(audit_files[sid].file, 0,
                        Desc("Rule_ID mismatch for {}: task='{}' vs audit='{}'",
                             <<sid, task_rid, audit_rid>>),
                        "error", "rule_id_match")>>
                ELSE IF Truthy(task_rid) /\ ~Truthy(audit_rid)
                THEN <<Finding(audit_files[sid].file, 0,
                        Desc("Audit file missing Rule_ID metadata for {}",
                             <<sid>>),
                        "warning", "rule_id_match")>>
                ELSE IF Truthy(audit_rid) /\ ~Truthy(task_rid)
                THEN <<Finding(task_data[sid].file, 0,
                        Desc("Task missing Rule_ID tag for {}", <<sid>>),
                        "warning", "rule_id_match")>>
                ELSE <<>>
        findings == Collect(Sorted(common), one)
    IN  CheckResult("Rule_ID Consistency", _determine_status(findings, TRUE),
                    findings, IssueSummary(findings))

\* check_rule_key_match with a status set apart from its findings
check_rule_key_match_AlwaysPass(task_data, audit_files, benchmark_type) ==
    LET meta(sid) ==
            LET meta_sid == audit_files[sid].meta_id IN
            IF Truthy(meta_sid) /\ meta_sid # sid
            THEN <<Finding(audit_files[sid].file, 0,
                    Desc("Audit filename/metadata STIG_ID mismatch: file='{}' vs metadata='{}'",
                         <<sid, meta_sid>>),
                    "error", "rule_key_match")>>
            ELSE <<>>
        findings ==
            IF benchmark_type = BENCHMARK_STIG
            THEN Collect(Sorted(DOMAIN audit_files), meta) ELSE <<>>
    IN  CheckResult("Rule Key Consistency", "PASS", findings,
                    IssueSummary(findings))

\* STIG: each audit file's metadata ID against its filename; then the rules
\* only in tasks and the rules only in audit, as info findings
check_rule_key_match(task_data, audit_files, benchmark_type) ==
    LET meta(sid) ==
            LET meta_sid == audit_files[sid].meta_id IN
            IF Truthy(meta_sid) /\ meta_sid # sid
            THEN <<Finding(audit_files[sid].file, 0,
                    Desc("Audit filename/metadata STIG_ID mismatch: file='{}' vs metadata='{}'",
                         <<sid, meta_sid>>),
                    "error", "rule_key_match")>>
            ELSE <<>>
        task_only(key) ==
            <<Finding(task_data[key].file, 0,
                      Desc("Rule found in tasks but no audit file: '{}'", <<key>>),
                      "info", "rule_key_match")>>
        audit_only(key) ==
            <<Finding(audit_files[key].file, 0,
                      Desc("Rule found in audit but no task: '{}'", <<key>>),
                      "info", "rule_key_match")>>
        findings ==
            (IF benchmark_type = BENCHMARK_STIG
             THEN Collect(Sorted(DOMAIN audit_files), meta) ELSE <<>>)
            \o Collect(Sorted(DOMAIN task_data \ DOMAIN audit_files), task_only)
            \o Collect(Sorted(DOMAIN audit_files \ DOMAIN task_data), audit_only)
    IN  CheckResult("Rule Key Consistency", _determine_status(findings, FALSE),
                    findings, IssueSummary(findings))

check_category_alignment(task_data, audit_files) ==
    LET common == DOMAIN task_data \cap DOMAIN audit_files
        one(sid) ==
            LET task_cat == task_data[sid].cat
                audit_cat == audit_files[sid].cat
            IN  IF task_cat # NoneInt /\ audit_cat # NoneInt /\ task_cat # audit_cat
                THEN <<Finding(audit_files[sid].file, 0,
                        Desc("Category mismatch for {}: task=cat_{} vs audit=cat_{}",
                             <<sid, Str(task_cat), Str(audit_cat)>>),
                        "error", "category_alignment")>>
                ELSE <<>>
        findings == Collect(Sorted(common), one)
    IN  CheckResult("Category Alignment", _determine_status(findings, TRUE),
                    findings, IssueSummary(findings))

\* t[:2] if len(t) >= 2 else t
major_minor(t) == IF Len(t) >= 2 THEN Take(t, 2) ELSE t

\* check_version_consistency raises: it normalizes every version before it
\* compares any
check_version_consistency_raises(versions) ==
    /\ Len(versions) >= 2
    /\ \E i \in 1..Len(versions) : normalize_version_raises(versions[i][2])

\* the result of check_version_consistency when it does not raise
check_version_consistency(versions) ==
    IF Len(versions) < 2
    THEN CheckResult("Version Consistency", "SKIP", <<>>,
                     Desc("Only {} version(s) found", <<Str(Len(versions))>>))
    ELSE LET base_mm == major_minor(normalize_version(versions[1][2]))
             one(v) ==
                 IF v[1] # versions[1][1]
                    /\ major_minor(normalize_version(v[2])) # base_mm
                 THEN <<Finding(v[1], 0,
                         Desc("Version mismatch: {}='{}' vs {}='{}'",
                              <<versions[1][1], versions[1][2], v[1], v[2]>>),
                         "error", "version_consistency")>>
                 ELSE <<>>
             findings == Collect(versions, one)
         IN  CheckResult("Version Consistency",
                         _determine_status(findings, TRUE),
                         findings, IssueSummary(findings))

\* the index in pat of the ] that closes the class opened at pat[1], or 0
\* when fnmatch takes the [ literally
ClassEnd(pat) ==
    LET j1 == IF Len(pat) >= 2 /\ pat[2] = "!" THEN 3 ELSE 2
        j2 == IF Len(pat) >= j1 /\ pat[j1] = "]" THEN j1 + 1 ELSE j1
        at == {k \in j2..Len(pat) : pat[k] = "]"}
    IN  IF at = {} THEN 0 ELSE Min(at)

\* the characters a class body stands for: ranges a-b and single characters
RECURSIVE ClassChars(_)
ClassChars(body) ==
    IF body = <<>> THEN {}
    ELSE IF Len(body) >= 3 /\ body[2] = "-"
    THEN {CodeOrder[k] : k \in Ord(body[1])..Ord(body[3])}
         \cup ClassChars(Drop(body, 3))
    ELSE {body[1]} \cup ClassChars(Tail(body))

ClassHas(stuff, c) ==
    IF stuff[1] = "!" THEN c \notin ClassChars(Tail(stuff))
    ELSE c \in ClassChars(stuff)

\* fnmatch.fnmatch(name, pat) on a POSIX system
RECURSIVE fnmatch(_, _)
fnmatch(name, pat) ==
    IF pat = <<>> THEN name = <<>>
    ELSE IF pat[1] = "*"
    THEN \E k \in 0..Len(name) : fnmatch(Drop(name, k), Tail(pat))
    ELSE IF name = <<>> THEN FALSE
    ELSE IF pat[1] = "?" THEN fnmatch(Tail(name), Tail(pat))
    ELSE IF pat[1] = "[" /\ ClassEnd(pat) > 0
    THEN /\ ClassHas(SubSeq(pat, 2, ClassEnd(pat) - 1), name[1])
         /\ fnmatch(Tail(name), Drop(pat, ClassEnd(pat)))
    ELSE name[1] = pat[1] /\ fnmatch(Tail(name), Tail(pat))

\* [\w.*?/\[\]-]
GlobChars == WordChars \cup {".", "*", "?", "/", "[", "]", "-"}

\* m.group(1) of re.match(r"^([\w.*?/\[\]-]+\.yml)\s*:\s*\{\}", stripped), or
\* None
GlobCapture(stripped) ==
    LET k == RunLen(stripped, 1, GlobChars) IN
    IF /\ k > Len(YML)
       /\ EndsWith(Take(stripped, k), YML)
       /\ StartsWith(AfterColon(stripped, k), <<"{", "}">>)
    THEN Take(stripped, k)
    ELSE None

parse_goss_globs(goss_file) ==
    LET lines == LinesOf(goss_file)
        hit(line) ==
            LET stripped == Strip(line) IN
            IF \/ stripped = <<>>
               \/ stripped[1] = "#"
               \/ FindSub(stripped, <<"{", "{">>) > 0
            THEN None
            ELSE GlobCapture(stripped)
    IN  SelectSeq([i \in 1..Len(lines) |-> hit(lines[i])], LAMBDA g : g # None)

check_goss_include_coverage(goss_globs, audit_files) ==
    LET one(sid) ==
            LET rel == audit_files[sid].file IN
            IF \E i \in 1..Len(goss_globs) : fnmatch(rel, goss_globs[i])
            THEN <<>>
            ELSE <<Finding(rel, 0,
                    Desc("Audit file not matched by any goss.yml glob: '{}'",
                         <<rel>>),
                    "error", "goss_include_coverage")>>
        findings == Collect(Sorted(DOMAIN audit_files), one)
    IN  CheckResult("Goss Include Coverage", _determine_status(findings, TRUE),
                    findings, IssueSummary(findings))

\* ("|", ">", "|-", ">-")
BlockIndicators == {<<"|">>, <<">">>, <<"|", "-">>, <<">", "-">>}

check_config_variable_parity(defaults_config, audit_config, audit_vars_name) ==
    LET common == DOMAIN defaults_config \cap DOMAIN audit_config
        one(var) ==
            LET def_val == defaults_config[var][1]
                aud_val == audit_config[var][1]
                aud_line == audit_config[var][2]
            IN  IF def_val \in BlockIndicators \/ aud_val \in BlockIndicators
                THEN <<>>
                ELSE IF StartsWith(def_val, <<"[">>) \/ StartsWith(aud_val, <<"[">>)
                THEN <<>>
                ELSE IF def_val # aud_val
                THEN <<Finding(audit_vars_name, aud_line,
                        Desc("Config value mismatch for '{}': defaults='{}' vs {}='{}'",
                             <<var, def_val, audit_vars_name, aud_val>>),
                        "warning", "config_variable_parity")>>
                ELSE <<>>
        findings == Collect(Sorted(common), one)
    IN  CheckResult("Config Variable Parity", _determine_status(findings, TRUE),
                    findings, IssueSummary(findings))

check_goss_template_var_sync(template_vars, defaults_config, defaults_toggles) ==
    LET one(var) ==
            LET val == template_vars[var][1]
                is_hardcoded == template_vars[var][2]
                lineno == template_vars[var][3]
            IN  IF ~is_hardcoded THEN <<>>
                ELSE IF val \in BlockIndicators THEN <<>>
                ELSE IF var \in DOMAIN defaults_config
                THEN IF defaults_config[var][1] \in BlockIndicators THEN <<>>
                     ELSE IF val # defaults_config[var][1]
                     THEN <<Finding(TEMPLATE_LOC, lineno,
                             Desc("Hardcoded template value mismatch for '{}': template='{}' vs defaults='{}'",
                                  <<var, val, defaults_config[var][1]>>),
                             "warning", "goss_template_var_sync")>>
                     ELSE <<>>
                ELSE IF var \notin DOMAIN defaults_toggles
                THEN <<Finding(TEMPLATE_LOC, lineno,
                        Desc("Hardcoded template variable '{}' not found in defaults/main.yml",
                             <<var>>),
                        "info", "goss_template_var_sync")>>
                ELSE <<>>
        findings == Collect(Sorted(DOMAIN template_vars), one)
    IN  CheckResult("Template Variable Sync", _determine_status(findings, TRUE),
                    findings, IssueSummary(findings))

_is_toggle_var(var, prefix, benchmark_type) ==
    IF benchmark_type = BENCHMARK_CIS THEN MatchRulePat(var, prefix)
    ELSE MatchStigToggle(var, prefix)

runtime_vars ==
    {(<<"m", "a", "c", "h", "i", "n", "e", "_", "u", "u", "i", "d">>),
     (<<"e", "p", "o", "c", "h">>),
     (<<"o", "s", "_", "l", "o", "c", "a", "l", "e">>),
     (<<"o", "s", "_", "r", "e", "l", "e", "a", "s", "e">>),
     (<<"o", "s", "_", "d", "i", "s", "t", "r", "i", "b", "u", "t", "i", "o", "n">>),
     (<<"a", "u", "t", "o", "_", "g", "r", "o", "u", "p">>),
     (<<"o", "s", "_", "h", "o", "s", "t", "n", "a", "m", "e">>),
     (<<"s", "y", "s", "t", "e", "m", "_", "t", "y", "p", "e">>),
     (<<"b", "e", "n", "c", "h", "m", "a", "r", "k", "_", "t", "y", "p", "e">>),
     (<<"b", "e", "n", "c", "h", "m", "a", "r", "k", "_", "v", "e", "r", "s", "i", "o", "n">>),
     (<<"b", "e", "n", "c", "h", "m", "a", "r", "k", "_", "o", "s">>),
     (<<"s", "y", "s", "t", "e", "m", "_", "i", "s", "_", "c", "o", "n", "t", "a", "i", "n", "e", "r">>)}

\* sep.join(parts)
RECURSIVE Join(_, _)
Join(parts, sep) ==
    IF parts = <<>> THEN <<>>
    ELSE IF Len(parts) = 1 THEN parts[1]
    ELSE parts[1] \o sep \o Join(Tail(parts), sep)

check_audit_vars_completeness(goss_var_refs, audit_vars_defined, prefix, benchmark_type) ==
    LET one(var) ==
            LET files == goss_var_refs[var]
                example_files == Take(Sorted(files), Min({3, Cardinality(files)}))
                file_list ==
                    Join(example_files, <<",", " ">>)
                    \o (IF Cardinality(files) > 3
                        THEN <<" ", "(", "+">> \o Str(Cardinality(files) - 3)
                             \o <<" ", "m", "o", "r", "e", ")">>
                        ELSE <<>>)
            IN  IF _is_toggle_var(var, prefix, benchmark_type) THEN <<>>
                ELSE IF var \in runtime_vars THEN <<>>
                ELSE IF ~StartsWith(var, prefix \o <<"_">>) THEN <<>>
                ELSE IF var \notin audit_vars_defined
                THEN <<Finding(AUDIT_TEST_FILES_LOC, 0,
                        Desc("Goss test references '.Vars.{}' but not defined in audit vars. Used in: {}",
                             <<var, file_list>>),
                        "warning", "audit_vars_completeness")>>
                ELSE <<>>
        findings == Collect(Sorted(DOMAIN goss_var_refs), one)
    IN  CheckResult("Audit Vars Completeness", _determine_status(findings, TRUE),
                    findings, IssueSummary(findings))

ToLower(c) == IF c \in UpperChars THEN CodeOrder[Ord(c) + CaseGap] ELSE c

\* str.lower()
Lower(s) == [i \in 1..Len(s) |-> ToLower(s[i])]

check_toggle_value_sync(defaults_values, audit_values, audit_vars_name) ==
    LET common == DOMAIN defaults_values \cap DOMAIN audit_values
        one(var) ==
            LET def_val == defaults_values[var][1]
                aud_val == audit_values[var][1]
                aud_line == audit_values[var][2]
            IN  IF Strip(Lower(def_val)) # Strip(Lower(aud_val))
                THEN <<Finding(audit_vars_name, aud_line,
                        Desc("Toggle value mismatch for '{}': defaults='{}' vs {}='{}'",
                             <<var, def_val, audit_vars_name, aud_val>>),
                        "warning", "toggle_value_sync")>>
                ELSE <<>>
        findings == Collect(Sorted(common), one)
    IN  CheckResult("Toggle Value Sync", _determine_status(findings, TRUE),
                    findings, IssueSummary(findings))

\* {"HIGH": 1, "MEDIUM": 2, "LOW": 3}
severity_to_cat ==
    <<(<<(<<"H", "I", "G", "H">>), 1>>),
      (<<(<<"M", "E", "D", "I", "U", "M">>), 2>>),
      (<<(<<"L", "O", "W">>), 3>>)>>

\* k plus the length of the run of white space after k characters of s
SkipSpace(s, k) == k + RunLen(s, k + 1, SpaceChars)

\* k, or k + 1 when the character c follows k characters of s
SkipChar(s, k, c) == IF k < Len(s) /\ s[k + 1] = c THEN k + 1 ELSE k

\* rest starts with label, blanks and a bar
LabelThenBar(rest, label) ==
    /\ StartsWith(rest, label)
    /\ SkipChar(rest, SkipSpace(rest, Len(label)), "|")
           > SkipSpace(rest, Len(label))

\* the label of severity_to_cat that (HIGH|MEDIUM|LOW)\s*\| matches in rest,
\* or None
SeverityLabelIn(rest) ==
    LET labels == {k \in 1..Len(severity_to_cat) :
                      LabelThenBar(rest, severity_to_cat[k][1])}
    IN  IF labels = {} THEN None ELSE severity_to_cat[Min(labels)][1]

\* name:\s*\"?(HIGH|MEDIUM|LOW)\s*\| after c characters of line
SeverityAfter(line, c) ==
    IF /\ Len(line) >= c + 5
       /\ Upper(SubSeq(line, c + 1, c + 5)) = <<"N", "A", "M", "E", ":">>
    THEN SeverityLabelIn(
             Upper(Drop(line, SkipChar(line, SkipSpace(line, c + 5), "\""))))
    ELSE None

\* m.group(1).upper() of severity_pat.match(line), or None:
\* ^\s*-?\s*name:\s*\"?(HIGH|MEDIUM|LOW)\s*\| with re.IGNORECASE
SeverityLabel(line) ==
    SeverityAfter(line, SkipSpace(line, SkipChar(line, SkipSpace(line, 0), "-")))

\* severity_to_cat.get(sev_label)
ExpectedCat(sev_label) ==
    severity_to_cat[CHOOSE k \in 1..Len(severity_to_cat) :
                        severity_to_cat[k][1] = sev_label][2]

check_severity_directory(benchmark_type, tasks) ==
    IF benchmark_type # BENCHMARK_STIG
    THEN CheckResult("Severity-Directory Alignment", "SKIP", <<>>,
                     Desc("CIS benchmarks do not use severity labels", <<>>))
    ELSE LET file(f) ==
                 LET cat_num == CatNum(f.dir)
                     line(lineno) ==
                         LET sev_label == SeverityLabel(f.lines[lineno]) IN
                         IF sev_label # None /\ ExpectedCat(sev_label) # cat_num
                         THEN <<Finding(TaskRelPath(f), lineno,
                                 Desc("Severity label '{}' (expected cat_{}) but task is in cat_{}",
                                      <<sev_label, Str(ExpectedCat(sev_label)),
                                        Str(cat_num)>>),
                                 "error", "severity_directory")>>
                         ELSE <<>>
                 IN  Flatten([lineno \in 1..Len(f.lines) |-> line(lineno)])
             findings == Collect(TaskWalk(tasks), file)
         IN  CheckResult("Severity-Directory Alignment",
                         _determine_status(findings, TRUE),
                         findings, IssueSummary(findings))

\* the literal lit stands in s at position i
LitAt(s, i, lit) ==
    i + Len(lit) - 1 <= Len(s) /\ SubSeq(s, i, i + Len(lit) - 1) = lit

\* open_pat \{\{-?\s*(if|range)\s+ matches in s at position i
OpenAt(s, i) ==
    LET j == i + 2 + (IF Len(s) >= i + 2 /\ s[i + 2] = "-" THEN 1 ELSE 0)
        k == j + RunLen(s, j, SpaceChars)
        word == IF LitAt(s, k, <<"i", "f">>) THEN 2
                ELSE IF LitAt(s, k, <<"r", "a", "n", "g", "e">>) THEN 5
                ELSE 0
    IN  /\ LitAt(s, i, <<"{", "{">>)
        /\ word > 0
        /\ RunLen(s, k + word, SpaceChars) >= 1

\* close_pat \{\{-?\s*end\s*-?\}\} matches in s at position i
CloseAt(s, i) ==
    LET j == i + 2 + (IF Len(s) >= i + 2 /\ s[i + 2] = "-" THEN 1 ELSE 0)
        k == j + RunLen(s, j, SpaceChars)
        e == k + 3 + RunLen(s, k + 3, SpaceChars)
        d == e + (IF Len(s) >= e /\ s[e] = "-" THEN 1 ELSE 0)
    IN  /\ LitAt(s, i, <<"{", "{">>)
        /\ LitAt(s, k, <<"e", "n", "d">>)
        /\ LitAt(s, d, <<"}", "}">>)

\* opens += len(open_pat.findall(line)) over the lines of a file
RECURSIVE CountOpens(_)
CountOpens(lines) ==
    IF lines = <<>> THEN 0
    ELSE Cardinality({i \in 1..Len(Head(lines)) : OpenAt(Head(lines), i)})
         + CountOpens(Tail(lines))

\* closes += len(close_pat.findall(line)) over the lines of a file
RECURSIVE CountCloses(_)
CountCloses(lines) ==
    IF lines = <<>> THEN 0
    ELSE Cardinality({i \in 1..Len(Head(lines)) : CloseAt(Head(lines), i)})
         + CountCloses(Tail(lines))

\* mutant: only a surplus of opening markers is reported
check_goss_block_pairing_SurplusOpens(tree) ==
    LET one(f) ==
            IF f.opens > f.closes
            THEN <<Finding(RelPath(f), 0,
                    Desc("Block mismatch: {} opening (if/range) vs {} closing (end)",
                         <<Str(f.opens), Str(f.closes)>>),
                    "warning", "goss_block_pairing")>>
            ELSE <<>>
        findings == Collect(AuditTestFiles(tree), one)
    IN  CheckResult("Goss Block Pairing", _determine_status(findings, TRUE),
                    findings, IssueSummary(findings))

\* lines 1383-1426
check_goss_block_pairing(tree) ==
    LET one(f) ==
            IF f.opens # f.closes
            THEN <<Finding(RelPath(f), 0,
                    Desc("Block mismatch: {} opening (if/range) vs {} closing (end)",
                         <<Str(f.opens), Str(f.closes)>>),
                    "warning", "goss_block_pairing")>>
            ELSE <<>>
        findings == Collect(AuditTestFiles(tree), one)
    IN  CheckResult("Goss Block Pairing", _determine_status(findings, TRUE),
                    findings, IssueSummary(findings))

\* m.group(1) of re.search(rf"when:\s*.*({prefix}_\d{{6}})", stripped), or
\* None: the greedy .* takes the last toggle after the first when:
WhenToggle(stripped, prefix) ==
    LET w == FindSub(stripped, WHEN)
        at == {i \in (w + Len(WHEN))..Len(stripped) :
                  StigHeadLen(Drop(stripped, i - 1), prefix) > 0}
    IN  IF w = 0 \/ at = {} THEN None
        ELSE SubSeq(stripped, Max(at), Max(at) + Len(prefix) + SuffixWidth)

\* one iteration of the line loop of check_when_toggle_alignment: st is
\* [cur, findings], the current_stig_id and the findings so far
WhenLine(st, line, lineno, rel, prefix, rule_id_prefix) ==
    LET stripped == Strip(line)
        named == IF IsNameLine(stripped)
                 THEN NamePatSearch(stripped, rule_id_prefix) ELSE None
        cur == IF named # None THEN Upper(named) ELSE st.cur
        when_toggle == IF Truthy(cur) /\ FindSub(stripped, WHEN) > 0
                       THEN WhenToggle(stripped, prefix) ELSE None
        expected_toggle ==
            IF SuffixStarts(cur) = {} THEN None
            ELSE prefix \o <<"_">>
                 \o SubSeq(cur, Min(SuffixStarts(cur)),
                           Min(SuffixStarts(cur)) + SuffixWidth - 1)
    IN  IF when_toggle = None THEN [cur |-> cur, findings |-> st.findings]
        ELSE [cur |-> None,
              findings |->
                  IF expected_toggle # None /\ when_toggle # expected_toggle
                  THEN Append(st.findings,
                         Finding(rel, lineno,
                           Desc("When-toggle mismatch for {}: expected '{}' but found '{}'",
                                <<cur, expected_toggle, when_toggle>>),
                           "error", "when_toggle_alignment"))
                  ELSE st.findings]

RECURSIVE WhenLines(_, _, _, _, _, _)
WhenLines(st, lines, lineno, rel, prefix, rule_id_prefix) ==
    IF lineno > Len(lines) THEN st
    ELSE WhenLines(WhenLine(st, lines[lineno], lineno, rel, prefix,
                            rule_id_prefix),
                   lines, lineno + 1, rel, prefix, rule_id_prefix)

check_when_toggle_alignment(tasks, prefix, rule_id_prefix, benchmark_type) ==
    IF benchmark_type # BENCHMARK_STIG \/ rule_id_prefix = <<>>
    THEN CheckResult("When-Toggle Alignment", "SKIP", <<>>,
                     Desc("Only applicable to STIG benchmarks", <<>>))
    ELSE LET file(f) ==
                 WhenLines([cur |-> None, findings |-> <<>>], f.lines, 1,
                           TaskRelPath(f), prefix, rule_id_prefix).findings
             findings == Collect(TaskWalk(tasks), file)
         IN  CheckResult("When-Toggle Alignment",
                         _determine_status(findings, TRUE),
                         findings, IssueSummary(findings))

----------------------------------------------------------------------------
(* main() of the validator.  fs is the pair of repositories:               *)
(*   defaults, template, run_audit, goss : a file (its lines) or NoFile    *)
(*   has_vars_dir, vars : the audit repository's vars directory, a map     *)
(*                        from file name to lines                          *)
(*   audit, tasks : the audit tree and the task tree                       *)
(* args is [type, skip, only, strict].                                     *)

\* the names discover_audit_vars_file tries, in priority order
KNOWN_VARS_NAMES ==
    <<(<<"S", "T", "I", "G", ".", "y", "m", "l">>),
      (<<"C", "I", "S", ".", "y", "m", "l">>),
      (<<"s", "t", "i", "g", ".", "y", "m", "l">>),
      (<<"c", "i", "s", ".", "y", "m", "l">>)>>

\* the file name discover_audit_vars_file settles on
discover_audit_vars_file(has_vars_dir, files) ==
    LET known == SelectSeq(KNOWN_VARS_NAMES, LAMBDA n : n \in DOMAIN files)
        yml == Sorted({n \in DOMAIN files :
                  EndsWith(n, YML) \/ EndsWith(n, <<".", "y", "a", "m", "l">>)})
    IN  IF ~has_vars_dir THEN KNOWN_VARS_NAMES[1]
        ELSE IF known # <<>> THEN known[1]
        ELSE IF yml # <<>> THEN yml[1]
        ELSE KNOWN_VARS_NAMES[1]

\* os.path.relpath(audit_vars_path, audit_dir)
AuditVarsName(f) ==
    <<"v", "a", "r", "s", "/">> \o discover_audit_vars_file(f.has_vars_dir, f.vars)

\* the audit vars file, or NoFile when it does not exist
AuditVarsFile(f) ==
    LET name == discover_audit_vars_file(f.has_vars_dir, f.vars) IN
    IF f.has_vars_dir /\ name \in DOMAIN f.vars THEN f.vars[name] ELSE NoFile

should_run(check_key, skip_set, only_set) ==
    IF only_set # {} THEN check_key \in only_set ELSE check_key \notin skip_set

\* the display name of each check
CHECK_NAMES ==
    [rule_toggle_sync |-> "Rule Toggle Sync",
     audit_coverage |-> "Audit File Coverage",
     rule_id_match |-> "Rule_ID Consistency",
     rule_key_match |-> "Rule Key Consistency",
     category_alignment |-> "Category Alignment",
     version_consistency |-> "Version Consistency",
     goss_include_coverage |-> "Goss Include Coverage",
     config_variable_parity |-> "Config Variable Parity",
     goss_template_var_sync |-> "Template Variable Sync",
     audit_vars_completeness |-> "Audit Vars Completeness",
     toggle_value_sync |-> "Toggle Value Sync",
     severity_directory |-> "Severity-Directory Alignment",
     goss_block_pairing |-> "Goss Block Pairing",
     when_toggle_alignment |-> "When-Toggle Alignment"]

\* the keys of the checks in the order main runs them
CHECK_ORDER ==
    <<"rule_toggle_sync", "audit_coverage", "rule_id_match", "rule_key_match",
      "category_alignment", "version_consistency", "goss_include_coverage",
      "config_variable_parity", "goss_template_var_sync",
      "audit_vars_completeness", "toggle_value_sync", "severity_directory",
      "goss_block_pairing", "when_toggle_alignment">>

\* the step after the check `key`
AfterCheck(key) ==
    LET k == CHOOSE i \in 1..Len(CHECK_ORDER) : CHECK_ORDER[i] = key IN
    IF k = Len(CHECK_ORDER) THEN "report" ELSE CHECK_ORDER[k + 1]

\* the process has not exited
Running == NoneInt

\* DetectPrefix without the sys.exit(2): the run goes on with an empty prefix
DetectPrefix_NoExit ==
    /\ pc = "prefix"
    /\ m_prefix' = auto_detect_prefix(fs.defaults)
    /\ pc' = "type"
    /\ UNCHANGED <<fs, args, m_benchmark_type, m_rule_id_prefix, data, results,
                   raised, exit_code, notMain>>

\* main: prefix = auto_detect_prefix(defaults_path); sys.exit(2) without one
DetectPrefix ==
    /\ pc = "prefix"
    /\ m_prefix' = auto_detect_prefix(fs.defaults)
    /\ IF m_prefix' = <<>>
       THEN pc' = "exit" /\ exit_code' = 2
       ELSE pc' = "type" /\ UNCHANGED exit_code
    /\ UNCHANGED <<fs, args, m_benchmark_type, m_rule_id_prefix, data, results,
                   raised, notMain>>

DetectType ==
    /\ pc = "type"
    /\ m_benchmark_type' = IF args.type = "auto"
                         THEN detect_benchmark_type(fs.defaults, m_prefix)
                         ELSE args.type
    /\ pc' = "rule_id_prefix"
    /\ UNCHANGED <<fs, args, m_prefix, m_rule_id_prefix, data, results, raised,
                   exit_code, notMain>>

DetectRuleIdPrefix ==
    /\ pc = "rule_id_prefix"
    /\ m_rule_id_prefix' = IF m_benchmark_type = BENCHMARK_STIG
                         THEN auto_detect_rule_id_prefix(fs.audit)
                         ELSE <<>>
    /\ pc' = "extract"
    /\ UNCHANGED <<fs, args, m_prefix, m_benchmark_type, data, results, raised,
                   exit_code, notMain>>

Extract ==
    /\ pc = "extract"
    /\ LET toggle_pat == build_toggle_pattern(m_prefix, m_benchmark_type)
           cond_pat == build_conditional_pattern(m_prefix, m_benchmark_type)
           audit_vars == AuditVarsFile(fs)
       IN  data' =
             [defaults_toggles |-> extract_rule_toggles(fs.defaults, toggle_pat),
              template_toggles |-> extract_rule_toggles(fs.template, toggle_pat),
              audit_vars_toggles |-> extract_rule_toggles(audit_vars, toggle_pat),
              audit_conditionals |-> extract_audit_conditionals(fs.audit, cond_pat),
              audit_files |-> extract_audit_files(fs.audit, m_benchmark_type, m_prefix),
              task_data |-> extract_task_data(fs.tasks, m_benchmark_type, m_prefix,
                                              m_rule_id_prefix),
              versions |-> extract_versions(fs.defaults, audit_vars, fs.run_audit,
                                            AuditVarsName(fs)),
              goss_globs |-> parse_goss_globs(fs.goss),
              defaults_config |-> extract_config_variables(fs.defaults, m_prefix,
                                                           toggle_pat),
              audit_config |-> extract_config_variables(audit_vars, m_prefix,
                                                        toggle_pat),
              template_vars |-> extract_template_variables(fs.template, m_prefix,
                                                           toggle_pat),
              goss_var_refs |-> extract_goss_var_references(fs.audit),
              audit_vars_defined |-> extract_audit_vars_defined(audit_vars),
              defaults_toggle_values |-> extract_toggle_values(fs.defaults,
                                                               toggle_pat),
              audit_toggle_values |-> extract_toggle_values(audit_vars,
                                                            toggle_pat)]
    /\ pc' = CHECK_ORDER[1]
    /\ UNCHANGED <<fs, args, m_prefix, m_benchmark_type, m_rule_id_prefix, results,
                   raised, exit_code, notMain>>

\* main._run(key, fn, *a): nothing when the check is filtered out; the
\* result of fn is appended; an exception of fn leaves main, and the
\* interpreter exits with status 1
_run(key, fn_raises, fn_result) ==
    /\ pc = key
    /\ IF ~should_run(key, args.skip, args.only)
       THEN pc' = AfterCheck(key) /\ UNCHANGED <<results, raised, exit_code>>
       ELSE IF fn_raises
       THEN pc' = "exit" /\ raised' = key /\ exit_code' = 1 /\ UNCHANGED results
       ELSE /\ results' = Append(results, fn_result)
            /\ pc' = AfterCheck(key)
            /\ UNCHANGED <<raised, exit_code>>
    /\ UNCHANGED <<fs, args, m_prefix, m_benchmark_type, m_rule_id_prefix, data,
                   notMain>>

RunRuleToggleSync ==
    _run("rule_toggle_sync", FALSE,
         check_rule_toggle_sync(data.defaults_toggles, data.template_toggles,
                                data.audit_vars_toggles, data.audit_conditionals,
                                AuditVarsName(fs)))

RunAuditCoverage ==
    _run("audit_coverage", FALSE,
         check_audit_coverage(data.defaults_toggles, data.audit_files, m_prefix,
                              m_rule_id_prefix, m_benchmark_type))

RunRuleIdMatch ==
    _run("rule_id_match", FALSE,
         check_rule_id_match(data.task_data, data.audit_files))

RunRuleKeyMatch ==
    _run("rule_key_match", FALSE,
         check_rule_key_match(data.task_data, data.audit_files, m_benchmark_type))

RunCategoryAlignment ==
    _run("category_alignment", FALSE,
         check_category_alignment(data.task_data, data.audit_files))

RunVersionConsistency ==
    _run("version_consistency",
         check_version_consistency_raises(data.versions),
         check_version_consistency(data.versions))

RunGossIncludeCoverage ==
    _run("goss_include_coverage", FALSE,
         check_goss_include_coverage(data.goss_globs, data.audit_files))

RunConfigVariableParity ==
    _run("config_variable_parity", FALSE,
         check_config_variable_parity(data.defaults_config, data.audit_config,
                                      AuditVarsName(fs)))

RunGossTemplateVarSync ==
    _run("goss_template_var_sync", FALSE,
         check_goss_template_var_sync(data.template_vars, data.defaults_config,
                                      data.defaults_toggles))

RunAuditVarsCompleteness ==
    _run("audit_vars_completeness", FALSE,
         check_audit_vars_completeness(data.goss_var_refs,
                                       data.audit_vars_defined, m_prefix,
                                       m_benchmark_type))

RunToggleValueSync ==
    _run("toggle_value_sync", FALSE,
         check_toggle_value_sync(data.defaults_toggle_values,
                                 data.audit_toggle_values, AuditVarsName(fs)))

RunSeverityDirectory ==
    _run("severity_directory", FALSE,
         check_severity_directory(m_benchmark_type, fs.tasks))

RunGossBlockPairing ==
    _run("goss_block_pairing", FALSE, check_goss_block_pairing(fs.audit))

RunWhenToggleAlignment ==
    _run("when_toggle_alignment", FALSE,
         check_when_toggle_alignment(fs.tasks, m_prefix, m_rule_id_prefix,
                                     m_benchmark_type))

\* has_errors that looks at the first result only
has_errors_FirstOnly(rs) == rs # <<>> /\ rs[1].status = "FAIL"

\* any(r.status == "FAIL" for r in results)
has_errors(rs) == \E i \in 1..Len(rs) : rs[i].status = "FAIL"

\* any(r.status == "WARN" for r in results)
has_warnings(rs) == \E i \in 1..Len(rs) : rs[i].status = "WARN"

\* the end of main: the report is written and the exit status chosen
Report ==
    /\ pc = "report"
    /\ exit_code' = IF has_errors(results) THEN 2
                    ELSE IF has_warnings(results) /\ args.strict THEN 1
                    ELSE 0
    /\ pc' = "exit"
    /\ UNCHANGED <<fs, args, m_prefix, m_benchmark_type, m_rule_id_prefix, data,
                   results, raised, notMain>>

----------------------------------------------------------------------------
(* The repositories and command lines the validator is run on *)

\* a defaults/main.yml
DefaultsStig ==
    <<(<<"p", "_", "0", "0", "0", "1", "0", "0", ":", " ", "t", "r", "u",
        "e">>),
      (<<"p", "_", "0", "0", "0", "2", "0", "0", ":", " ", "f", "a", "l", "s",
          "e">>),
      (<<"p", "_", "c", "f", "g", ":", " ", "'", "x", "'">>),
      (<<"b", "e", "n", "c", "h", "m", "a", "r", "k", "_", "v", "e", "r", "s",
          "i", "o", "n", ":", " ", "v", "1", "r", "2">>)>>

\* a defaults/main.yml
DefaultsCis ==
    <<(<<"p", "_", "r", "u", "l", "e", "_", "1", "_", "1", ":", " ", "t", "r",
        "u", "e">>),
      (<<"p", "_", "c", "f", "g", ":", " ", "x">>),
      (<<"b", "e", "n", "c", "h", "m", "a", "r", "k", "_", "v", "e", "r", "s",
          "i", "o", "n", ":", " ", "1", ".", "2", ".", "0">>)>>

\* a defaults/main.yml
DefaultsNoDeclaration ==
    <<(<<"#", " ", "n", "o", " ", "d", "e", "c", "l", "a", "r", "a", "t", "i",
        "o", "n", "s">>)>>

DefaultsFiles == {NoFile, DefaultsStig, DefaultsCis, DefaultsNoDeclaration}

\* templates/ansible_vars_goss.yml.j2
TemplateFile ==
    <<(<<"p", "_", "0", "0", "0", "1", "0", "0", ":", " ", "{", "{", " ", "p",
        "_", "0", "0", "0", "1", "0", "0", " ", "}", "}">>),
      (<<"p", "_", "r", "u", "l", "e", "_", "1", "_", "1", ":", " ", "{", "{",
          " ", "p", "_", "r", "u", "l", "e", "_", "1", "_", "1", " ", "}",
          "}">>),
      (<<"p", "_", "c", "f", "g", ":", " ", "'", "y", "'">>),
      (<<"p", "_", "n", "e", "w", ":", " ", "1">>)>>

\* the vars directory of the audit repository
VarsDir ==
    (<<"S", "T", "I", "G", ".", "y", "m", "l">>) :> <<(<<"p", "_", "0", "0",
        "0", "1", "0", "0", ":", " ", "f", "a", "l", "s", "e">>),
          (<<"p", "_", "r", "u", "l", "e", "_", "1", "_", "1", ":", " ", "t",
              "r", "u", "e">>),
          (<<"p", "_", "c", "f", "g", ":", " ", "z">>),
          (<<"b", "e", "n", "c", "h", "m", "a", "r", "k", "_", "v", "e", "r",
              "s", "i", "o", "n", ":", " ", "v", "1", "r", "3">>)>>

\* a run_audit.sh
RunAuditPlain ==
    <<(<<"B", "E", "N", "C", "H", "M", "A", "R", "K", "_", "V", "E", "R", "=",
        "v", "1", "r", "2">>)>>

\* a run_audit.sh whose version has a minor number of more digits than
\* int() converts
RunAuditLongMinor ==
    <<<<"B", "E", "N", "C", "H", "M", "A", "R", "K", "_", "V", "E", "R", "=",
        "1", "r">> \o [i \in 1..(INT_MAX_STR_DIGITS + 1) |-> "9"]>>

RunAuditFiles == {NoFile, RunAuditPlain, RunAuditLongMinor}

\* goss.yml
GossFile ==
    <<(<<"c", "a", "t", "_", "1", "/", "*", ".", "y", "m", "l", ":", " ", "{",
        "}">>)>>

\* an audit tree
AuditStig ==
    {[dir |-> <<"c", "a", "t", "_", "1">>, rank |-> 0, fname |-> <<"R", "-", "2", "-", "0",
        "0", "0", "1", "0", "0", ".", "y", "m", "l">>, readable |-> TRUE,
        if_vars |-> <<<<"p", "_", "0", "0", "0", "1", "0", "0">>>>,
        rule_id |-> <<"S", "V", "-", "1", "r", "1", "_", "r", "u", "l", "e">>,
        meta_id |-> <<"R", "-", "2", "-", "0", "0", "0", "1", "0", "0">>,
        meta_cat |-> (0 - 1), var_refs |-> {<<"p", "_", "0", "0", "0", "1",
        "0", "0">>, <<"p", "_", "m", "i", "s", "s", "i", "n", "g">>},
        opens |-> 1, closes |-> 1],
     [dir |-> <<"c", "a", "t", "_", "2">>, rank |-> 0, fname |-> <<"R", "-", "2", "-", "0",
         "0", "0", "3", "0", "0", ".", "y", "m", "l">>, readable |-> TRUE,
         if_vars |-> <<<<"p", "_", "0", "0", "0", "3", "0", "0">>>>,
         rule_id |-> <<"None">>, meta_id |-> <<"R", "-", "2", "-", "0", "0",
         "0", "9", "9", "9">>, meta_cat |-> (0 - 1), var_refs |-> {<<"p", "_",
         "0", "0", "0", "3", "0", "0">>}, opens |-> 1, closes |-> 0]}

\* an audit tree
AuditPlain ==
    {[dir |-> <<"c", "a", "t", "_", "1">>, rank |-> 0, fname |-> <<"o", "d", "d", ".", "y",
        "m", "l">>, readable |-> TRUE, if_vars |-> <<<<"p", "_", "r", "u", "l",
        "e", "_", "1", "_", "1">>>>, rule_id |-> <<"None">>,
        meta_id |-> <<"None">>, meta_cat |-> (0 - 1), var_refs |-> {<<"p", "_",
        "r", "u", "l", "e", "_", "1", "_", "1">>}, opens |-> 1, closes |-> 1]}

AuditTrees == {{}, AuditStig, AuditPlain}

\* the task tree
TaskTree ==
    {[dir |-> <<"c", "a", "t", "_", "1">>, fname |-> <<"a", ".", "y", "m",
        "l">>, readable |-> TRUE, lines |-> <<<<"-", " ", "n", "a", "m", "e",
        ":", " ", "\"", "M", "E", "D", "I", "U", "M", " ", "|", " ", "R", "-",
        "2", "-", "0", "0", "0", "1", "0", "0", " ", "|", " ", "x", "\"">>,
        <<" ", " ", "w", "h", "e", "n", ":", " ", "p", "_", "0", "0", "0", "2",
        "0", "0">>, <<" ", " ", "t", "a", "g", "s", ":", " ", "S", "V", "-",
        "1", "r", "2", "_", "r", "u", "l", "e">>, <<"-", " ", "n", "a", "m",
        "e", ":", " ", "\"", "1", ".", "1", " ", "|", " ", "y", "\"">>, <<" ",
        " ", "w", "h", "e", "n", ":", " ", "p", "_", "r", "u", "l", "e", "_",
        "1", "_", "1">>>>]}


Repositories ==
    {[defaults |-> d, template |-> TemplateFile, has_vars_dir |-> v,
      vars |-> VarsDir, run_audit |-> r, goss |-> GossFile, audit |-> a,
      tasks |-> TaskTree] :
        d \in DefaultsFiles, v \in BOOLEAN, r \in RunAuditFiles,
        a \in AuditTrees}

\* --skip and --only values
Filters ==
    {[skip |-> {}, only |-> {}],
     [skip |-> {"version_consistency"}, only |-> {}],
     [skip |-> {}, only |-> {"audit_coverage", "version_consistency"}]}

CommandLines ==
    {[type |-> t, skip |-> f.skip, only |-> f.only, strict |-> st] :
        t \in {"auto", BENCHMARK_STIG, BENCHMARK_CIS}, f \in Filters,
        st \in BOOLEAN}

\* the validator's variables when another specification runs
MainIdle ==
    /\ fs = <<>>
    /\ args = <<>>
    /\ pc = "idle"
    /\ m_prefix = <<>>
    /\ m_benchmark_type = ""
    /\ m_rule_id_prefix = <<>>
    /\ data = EmptyMap
    /\ results = <<>>
    /\ raised = ""
    /\ exit_code = Running

----------------------------------------------------------------------------
(* Normalizer harness: the two functions applied to bounded inputs *)

\* how far the width of a digit run may differ from SuffixWidth
MaxPad == 1

SampleDigits == {"0", "7"}

JunkChars == {"x", "-", "\n"}

DigitRuns(n) == [1..n -> SampleDigits]

NormPrefixes == {<<"p">>, <<"a", "b">>}

NormRulePrefixes == {<<>>, <<"R", "-", "2">>, <<"X">>}

Widths == {w \in (SuffixWidth - MaxPad)..(SuffixWidth + MaxPad) : w >= 1}

\* sample digit runs that extend one fixed run to every width
SampleRuns == {[i \in 1..w |-> IF i % 2 = 0 THEN "7" ELSE "0"] : w \in Widths}
                  \cup DigitRuns(SuffixWidth)

ToggleInputs(p) ==
    LET body == {p \o <<"_">> \o d : d \in SampleRuns}
        good == {p \o <<"_">> \o d : d \in DigitRuns(SuffixWidth)}
    IN  body
        \cup {p \o d : d \in SampleRuns}
        \cup {t \o <<c>> : t \in good, c \in JunkChars}
        \cup {<<c>> \o t : t \in good, c \in JunkChars}
        \cup {[t EXCEPT ![Len(p) + 2] = "x"] : t \in good}

KeyInputs(rp) ==
    LET good == {rp \o <<"-">> \o d : d \in DigitRuns(SuffixWidth)}
    IN  good
        \cup SampleRuns
        \cup {rp \o d : d \in SampleRuns}
        \cup {rp \o <<"-">> \o d : d \in SampleRuns}
        \cup {k \o <<"x">> : k \in good}
        \cup {[k EXCEPT ![Len(k)] = "x"] : k \in good}

NormIdle ==
    /\ n_pc = "idle"
    /\ n_toggle = None
    /\ n_prefix = None
    /\ n_rp = None
    /\ n_type = BENCHMARK_STIG
    /\ n_key = None
    /\ n_back = None

\* key = toggle_to_rule_key(toggle, prefix, rule_id_prefix, benchmark_type)
CallForward ==
    /\ n_pc = "idle"
    /\ \E p \in NormPrefixes, rp \in NormRulePrefixes,
          bt \in {BENCHMARK_STIG, BENCHMARK_CIS} :
          \E t \in ToggleInputs(p) :
             /\ n_toggle' = t
             /\ n_prefix' = p
             /\ n_rp' = rp
             /\ n_type' = bt
             /\ n_key' = toggle_to_rule_key(t, p, rp, bt)
    /\ n_pc' = "forward"
    /\ UNCHANGED <<n_back, notNorm>>

\* rule_key_to_toggle applied to the key the forward call returned
CallBack ==
    /\ n_pc = "forward"
    /\ n_back' = rule_key_to_toggle(n_key, n_prefix, n_type)
    /\ n_pc' = "round"
    /\ UNCHANGED <<n_toggle, n_prefix, n_rp, n_type, n_key, notNorm>>

\* rule_key_to_toggle applied to a key from outside
CallInverse ==
    /\ n_pc = "idle"
    /\ \E p \in NormPrefixes, rp \in NormRulePrefixes,
          bt \in {BENCHMARK_STIG, BENCHMARK_CIS} :
          \E k \in KeyInputs(rp) :
             /\ n_key' = k
             /\ n_prefix' = p
             /\ n_rp' = rp
             /\ n_type' = bt
             /\ n_back' = rule_key_to_toggle(k, p, bt)
    /\ n_pc' = "inverse"
    /\ UNCHANGED <<n_toggle, notNorm>>

----------------------------------------------------------------------------
(* Status harness: one check's findings list grows by one finding at a time *)

\* longest findings list of the status harness
MaxFindings == 4

StatusIdle ==
    /\ s_findings = <<>>
    /\ s_warn_on_any = FALSE
    /\ s_status = "PASS"

InitStatus ==
    /\ s_findings = <<>>
    /\ s_warn_on_any \in BOOLEAN
    /\ s_status = _determine_status(<<>>, s_warn_on_any)

\* findings.append(Finding(...)); status = _determine_status(findings, ...)
AppendFinding ==
    /\ Len(s_findings) < MaxFindings
    /\ \E sev \in Severities :
          s_findings' = Append(s_findings,
                               Finding("f.yml", Len(s_findings) + 1,
                                       "issue", sev, "check"))
    /\ s_status' = _determine_status(s_findings', s_warn_on_any)
    /\ UNCHANGED <<s_warn_on_any, notStatus>>

----------------------------------------------------------------------------
(* Function harness: one function of the validator applied to bounded     *)
(* inputs.  u_pc names the function, u_in holds its arguments and u_out    *)
(* what it returned.                                                       *)

UnitIdle ==
    /\ u_pc = "idle"
    /\ u_in = <<>>
    /\ u_out = <<>>

\* the longest defaults/main.yml the harness writes, in lines
MaxLines == 3

\* every file of at most MaxLines lines drawn from `alphabet`, and no file
FilesOver(alphabet) ==
    {NoFile} \cup UNION {[1..n -> alphabet] : n \in 0..MaxLines}

\* lines of a defaults/main.yml: names of one to four segments, an indented
\* line, a comment line, a name that starts with the delimiter, a name with
\* an empty segment
DeclLines ==
    {(<<"f", "o", "o", ":">>),
     (<<"_", "p", "_", "x", ":">>),
     (<<"a", "_", "_", "b", "_", "c", ":">>),
     (<<"b", "a", "r", "_", "x", ":">>),
     (<<"a", "_", "b", "_", "c", ":">>),
     (<<"a", "_", "b", "_", "c", "_", "d", ":">>),
     (<<" ", "a", "_", "z", ":">>),
     (<<"#", "a", "_", "y", ":">>),
     (<<"a", "_", "q", ":">>)}

\* prefix = auto_detect_prefix(defaults_path)
CallAutoDetectPrefix ==
    /\ u_pc = "idle"
    /\ \E file \in FilesOver(DeclLines) :
          /\ u_in' = [defaults_file |-> file]
          /\ u_out' = auto_detect_prefix(file)
    /\ u_pc' = "auto_detect_prefix"
    /\ UNCHANGED notUnit

\* lines of a defaults/main.yml for the prefix p: both dialect shapes, an
\* indented line, a run of seven digits, a blank before the colon, another
\* name
TypeLines ==
    {(<<"p", "_", "r", "u", "l", "e", "_", "1", ":", " ", "t">>),
     (<<"p", "_", "0", "0", "0", "1", "0", "0", ":", " ", "t">>),
     (<<" ", " ", "p", "_", "r", "u", "l", "e", "_", "2", "_", "1", ":",
        " ", "t">>),
     (<<"p", "_", "0", "0", "0", "1", "0", "0", "0", ":", " ", "t">>),
     (<<"p", "_", "0", "0", "0", "2", "0", "0", " ", ":", " ", "f">>),
     (<<"o", "t", "h", "e", "r", ":", " ", "1">>)}

TypePrefixes == {<<"p">>, <<"o", "t", "h", "e", "r">>}

\* benchmark_type = detect_benchmark_type(defaults_path, prefix)
CallDetectBenchmarkType ==
    /\ u_pc = "idle"
    /\ \E file \in FilesOver(TypeLines), prefix \in TypePrefixes :
          /\ u_in' = [defaults_file |-> file, prefix |-> prefix]
          /\ u_out' = detect_benchmark_type(file, prefix)
    /\ u_pc' = "detect_benchmark_type"
    /\ UNCHANGED notUnit

\* audit test files: three that share a file name in cat_1 and in two
\* directories nested in it, one named off the rule-key shape, one in cat_2
AuditPool ==
    {[dir |-> <<"c", "a", "t", "_", "1">>, rank |-> 0,
      fname |-> <<"R", "-", "2", "-", "0", "0", "0", "1", "0", "0", ".", "y", "m", "l">>,
      readable |-> TRUE, if_vars |-> <<<<"p", "_", "0", "0", "0", "1", "0", "0">>>>,
      rule_id |-> <<"S", "V", "-", "1", "r", "1", "_", "r", "u", "l", "e">>,
      meta_id |-> <<"R", "-", "2", "-", "0", "0", "0", "1", "0", "0">>,
      meta_cat |-> NoneInt, var_refs |-> {<<"p", "_", "0", "0", "0", "1", "0", "0">>}, opens |-> 1, closes |-> 1],
     [dir |-> <<"c", "a", "t", "_", "1", "/", "a">>, rank |-> 0,
      fname |-> <<"R", "-", "2", "-", "0", "0", "0", "1", "0", "0", ".", "y", "m", "l">>,
      readable |-> TRUE, if_vars |-> <<<<"p", "_", "0", "0", "0", "1", "0", "0">>>>,
      rule_id |-> <<"S", "V", "-", "2", "r", "1", "_", "r", "u", "l", "e">>,
      meta_id |-> <<"R", "-", "2", "-", "0", "0", "0", "1", "0", "0">>,
      meta_cat |-> NoneInt, var_refs |-> {<<"p", "_", "0", "0", "0", "1", "0", "0">>}, opens |-> 1, closes |-> 1],
     [dir |-> <<"c", "a", "t", "_", "1", "/", "b">>, rank |-> 0,
      fname |-> <<"R", "-", "2", "-", "0", "0", "0", "1", "0", "0", ".", "y", "m", "l">>,
      readable |-> TRUE, if_vars |-> <<<<"p", "_", "0", "0", "0", "1", "0", "0">>, <<"p", "_", "0", "0", "0", "2", "0", "0">>>>,
      rule_id |-> <<"S", "V", "-", "3", "r", "1", "_", "r", "u", "l", "e">>,
      meta_id |-> <<"None">>,
      meta_cat |-> NoneInt, var_refs |-> {<<"p", "_", "0", "0", "0", "1", "0", "0">>, <<"p", "_", "0", "0", "0", "2", "0", "0">>}, opens |-> 1, closes |-> 1],
     [dir |-> <<"c", "a", "t", "_", "1", "/", "b">>, rank |-> 0,
      fname |-> <<"o", "d", "d", ".", "y", "m", "l">>,
      readable |-> TRUE, if_vars |-> <<<<"p", "_", "r", "u", "l", "e", "_", "1", "_", "1">>>>,
      rule_id |-> <<"None">>,
      meta_id |-> <<"R", "-", "2", "-", "0", "0", "0", "2", "0", "0">>,
      meta_cat |-> NoneInt, var_refs |-> {<<"p", "_", "r", "u", "l", "e", "_", "1", "_", "1">>}, opens |-> 1, closes |-> 1],
     [dir |-> <<"c", "a", "t", "_", "2">>, rank |-> 0,
      fname |-> <<"R", "-", "2", "-", "0", "0", "0", "2", "0", "0", ".", "y", "m", "l">>,
      readable |-> TRUE, if_vars |-> <<<<"p", "_", "0", "0", "0", "2", "0", "0">>>>,
      rule_id |-> <<"None">>,
      meta_id |-> <<"R", "-", "2", "-", "0", "0", "0", "9", "9", "9">>,
      meta_cat |-> NoneInt, var_refs |-> {<<"p", "_", "0", "0", "0", "2", "0", "0">>}, opens |-> 2, closes |-> 1]}

NestedDirs == {f.dir : f \in {g \in AuditPool : TopDir(g.dir) # g.dir}}

\* the orders the operating system may list the nested directories in
Listings ==
    {l \in [NestedDirs -> 1..Cardinality(NestedDirs)] :
        \A d, e \in NestedDirs : l[d] = l[e] => d = e}

\* the files `files` on a disk that lists the nested directories as `listing`
Listed(files, listing) ==
    {[f EXCEPT !.rank = IF f.dir \in DOMAIN listing THEN listing[f.dir] ELSE 0] :
        f \in files}

\* audit_conditionals = extract_audit_conditionals(audit_dir, cond_pat) and
\* audit_files = extract_audit_files(audit_dir, benchmark_type, prefix)
CallExtractAudit ==
    /\ u_pc = "idle"
    /\ \E files \in SUBSET AuditPool, listing \in Listings,
          benchmark_type \in {BENCHMARK_STIG, BENCHMARK_CIS} :
          LET tree == Listed(files, listing)
              prefix == <<"p">>
          IN  /\ u_in' = [tree |-> tree, benchmark_type |-> benchmark_type,
                          prefix |-> prefix]
              /\ u_out' =
                    [audit_conditionals |->
                        extract_audit_conditionals(tree,
                            build_conditional_pattern(prefix, benchmark_type)),
                     audit_files |->
                        extract_audit_files(tree, benchmark_type, prefix)]
    /\ u_pc' = "extract_audit"
    /\ UNCHANGED notUnit

\* every extractor called on one file, one audit tree and one task tree; a
\* directory that does not exist is a tree with no files, a file that does
\* not exist is NoFile
CallExtractors ==
    /\ u_pc = "idle"
    /\ \E file \in {NoFile, DefaultsStig, DefaultsCis, TemplateFile, GossFile},
          audit_dir \in {{}, AuditStig, AuditPlain},
          tasks_dir \in {{}, TaskTree},
          benchmark_type \in {BENCHMARK_STIG, BENCHMARK_CIS} :
          LET prefix == <<"p">>
              toggle_pat == build_toggle_pattern(prefix, benchmark_type)
              cond_pat == build_conditional_pattern(prefix, benchmark_type)
          IN  /\ u_in' = [file |-> file, audit_dir |-> audit_dir,
                          tasks_dir |-> tasks_dir,
                          benchmark_type |-> benchmark_type]
              /\ u_out' =
                    [rule_toggles |-> extract_rule_toggles(file, toggle_pat),
                     toggle_values |-> extract_toggle_values(file, toggle_pat),
                     config_variables |->
                        extract_config_variables(file, prefix, toggle_pat),
                     template_variables |->
                        extract_template_variables(file, prefix, toggle_pat),
                     audit_vars_defined |-> extract_audit_vars_defined(file),
                     versions |-> extract_versions(file, file, file, <<"v">>),
                     goss_globs |-> parse_goss_globs(file),
                     audit_subdirs |-> _find_audit_subdirs(audit_dir),
                     audit_conditionals |->
                        extract_audit_conditionals(audit_dir, cond_pat),
                     audit_files |->
                        extract_audit_files(audit_dir, benchmark_type, prefix),
                     goss_var_references |->
                        extract_goss_var_references(audit_dir),
                     task_data |->
                        extract_task_data(tasks_dir, benchmark_type, prefix,
                                          <<"R", "-", "2">>)]
    /\ u_pc' = "extractors"
    /\ UNCHANGED notUnit

\* audit trees the checks are called on
CheckTrees ==
    AuditTrees \cup {Listed(files, listing) :
                        files \in SUBSET AuditPool, listing \in Listings}

\* _run("audit_coverage", check_audit_coverage, defaults_toggles, audit_files,
\* prefix, rule_id_prefix, benchmark_type) on what main extracts
CallCheckAuditCoverage ==
    /\ u_pc = "idle"
    /\ \E file \in {NoFile, DefaultsStig, DefaultsCis}, tree \in CheckTrees,
          benchmark_type \in {BENCHMARK_STIG, BENCHMARK_CIS} :
          LET prefix == <<"p">>
              rule_id_prefix == IF benchmark_type = BENCHMARK_STIG
                                THEN auto_detect_rule_id_prefix(tree)
                                ELSE <<>>
              defaults_toggles ==
                  extract_rule_toggles(file,
                      build_toggle_pattern(prefix, benchmark_type))
              audit_files == extract_audit_files(tree, benchmark_type, prefix)
          IN  /\ u_in' = [defaults_toggles |-> defaults_toggles,
                          audit_files |-> audit_files, prefix |-> prefix,
                          rule_id_prefix |-> rule_id_prefix,
                          benchmark_type |-> benchmark_type]
              /\ u_out' = check_audit_coverage(defaults_toggles, audit_files,
                              prefix, rule_id_prefix, benchmark_type)
    /\ u_pc' = "check_audit_coverage"
    /\ UNCHANGED notUnit

\* _run("rule_toggle_sync", check_rule_toggle_sync, defaults_toggles,
\* template_toggles, audit_vars_toggles, audit_conditionals, audit_vars_name)
\* on what main extracts
CallCheckRuleToggleSync ==
    /\ u_pc = "idle"
    /\ \E defaults_file \in {NoFile, DefaultsStig, DefaultsCis},
          template_file \in {NoFile, TemplateFile},
          vars_name \in DOMAIN VarsDir, has_vars \in BOOLEAN,
          tree \in CheckTrees,
          benchmark_type \in {BENCHMARK_STIG, BENCHMARK_CIS} :
          LET prefix == <<"p">>
              toggle_pat == build_toggle_pattern(prefix, benchmark_type)
              defaults_toggles == extract_rule_toggles(defaults_file, toggle_pat)
              audit_conditionals ==
                  extract_audit_conditionals(tree,
                      build_conditional_pattern(prefix, benchmark_type))
          IN  /\ u_in' = [defaults_toggles |-> defaults_toggles,
                          audit_conditionals |-> audit_conditionals]
              /\ u_out' = check_rule_toggle_sync(defaults_toggles,
                              extract_rule_toggles(template_file, toggle_pat),
                              extract_rule_toggles(
                                  IF has_vars THEN VarsDir[vars_name] ELSE NoFile,
                                  toggle_pat),
                              audit_conditionals,
                              <<"v", "a", "r", "s", "/">> \o vars_name)
    /\ u_pc' = "check_rule_toggle_sync"
    /\ UNCHANGED notUnit

\* version strings: dotted with and without a patch component, the
\* v{major}r{minor} form, a lone major, two strings that are no version, and
\* a minor of more than INT_MAX_STR_DIGITS digits
RawVersions ==
    {<<"1", ".", "2", ".", "0">>,
     <<"v", "1", ".", "2", ".", "5">>,
     <<"1", ".", "3", ".", "0">>,
     <<"v", "1", "r", "2">>,
     <<"V", "1", "R", "2">>,
     <<"1">>,
     <<"a", "b", "c">>,
     <<"x", "y", "z">>,
     <<"1", ".", "2">>,
     <<"1", "r">> \o [i \in 1..(INT_MAX_STR_DIGITS + 1) |-> "9"]}

\* the versions dict: each of the three sites has a version or has none
VersionDicts ==
    {SelectSeq(<<(<<DEFAULTS_LOC, d>>),
                 (<<(<<"v", "a", "r", "s", "/", "S", "T", "I", "G", ".", "y",
                      "m", "l">>), a>>),
                 (<<RUN_AUDIT_LOC, r>>)>>,
               LAMBDA v : v[2] # None) :
        d \in RawVersions \cup {None}, a \in RawVersions \cup {None},
        r \in RawVersions \cup {None}}

\* _run("version_consistency", check_version_consistency, versions); an
\* exception leaves the call with no result
CallCheckVersionConsistency ==
    /\ u_pc = "idle"
    /\ \E versions \in VersionDicts :
          /\ u_in' = [versions |-> versions]
          /\ u_out' = IF check_version_consistency_raises(versions)
                      THEN [raised |-> "ValueError"]
                      ELSE check_version_consistency(versions)
    /\ u_pc' = "check_version_consistency"
    /\ UNCHANGED notUnit

\* include globs of a goss.yml
GlobLists ==
    {<<>>,
     <<(<<"c", "a", "t", "_", "1", "/", "*", ".", "y", "m", "l">>)>>,
     <<(<<"c", "a", "t", "_", "1", "/", "a", "/", "*", ".", "y", "m", "l">>)>>,
     <<(<<"c", "a", "t", "_", "1", "/", "a", "/", "*", ".", "y", "m", "l">>), (<<"c", "a", "t", "_", "2", "/", "*", ".", "y", "m", "l">>)>>}

\* _run("goss_include_coverage", check_goss_include_coverage, goss_globs,
\* audit_files) on the audit files main extracts
CallCheckGossIncludeCoverage ==
    /\ u_pc = "idle"
    /\ \E goss_globs \in GlobLists, tree \in CheckTrees,
          benchmark_type \in {BENCHMARK_STIG, BENCHMARK_CIS} :
          /\ u_in' = [tree |-> tree, goss_globs |-> goss_globs,
                      benchmark_type |-> benchmark_type]
          /\ u_out' = check_goss_include_coverage(goss_globs,
                          extract_audit_files(tree, benchmark_type, <<"p">>))
    /\ u_pc' = "check_goss_include_coverage"
    /\ UNCHANGED notUnit

\* a task tree whose one task carries the ID that odd.yml declares
TaskTreeOdd ==
    {[dir |-> <<"c", "a", "t", "_", "1">>, fname |-> <<"b", ".", "y", "m", "l">>,
      readable |-> TRUE,
      lines |-> <<(<<"-", " ", "n", "a", "m", "e", ":", " ", "\"", "H", "I", "G", "H", " ", "|", " ", "R", "-", "2", "-", "0", "0", "0", "2", "0", "0", " ", "|", " ", "x", "\"">>),
                  (<<" ", " ", "w", "h", "e", "n", ":", " ", "p", "_", "0", "0", "0", "2", "0", "0">>)>>]}

\* _run("rule_key_match", check_rule_key_match, task_data, audit_files,
\* benchmark_type) on what main extracts
CallCheckRuleKeyMatch ==
    /\ u_pc = "idle"
    /\ \E tree \in CheckTrees, tasks \in {{}, TaskTree, TaskTreeOdd},
          benchmark_type \in {BENCHMARK_STIG, BENCHMARK_CIS} :
          LET prefix == <<"p">>
              rule_id_prefix == IF benchmark_type = BENCHMARK_STIG
                                THEN auto_detect_rule_id_prefix(tree)
                                ELSE <<>>
          IN  /\ u_in' = [tree |-> tree, benchmark_type |-> benchmark_type]
              /\ u_out' = check_rule_key_match(
                              extract_task_data(tasks, benchmark_type, prefix,
                                                rule_id_prefix),
                              extract_audit_files(tree, benchmark_type, prefix),
                              benchmark_type)
    /\ u_pc' = "check_rule_key_match"
    /\ UNCHANGED notUnit

\* the longest task file of the function harness, in tasks
MaxTasks == 2

\* tasks: the name line, the structured ID the name carries (None when it
\* carries none) and the toggle of the task's own when: line (None when the
\* task has no condition)
SampleTasks ==
    {[name |-> n.name, id |-> n.id, when |-> w] :
        n \in {[name |-> <<"-", " ", "n", "a", "m", "e", ":", " ", "\"", "H", "I", "G", "H", " ", "|", " ", "R", "-", "2", "-", "0", "0", "0", "1", "0", "0", " ", "|", " ", "a", "\"">>,
                id |-> <<"R", "-", "2", "-", "0", "0", "0", "1", "0", "0">>],
               [name |-> <<"-", " ", "n", "a", "m", "e", ":", " ", "h", "e", "l", "p", "e", "r">>, id |-> None]},
        w \in {None, <<"p", "_", "0", "0", "0", "1", "0", "0">>, <<"p", "_", "0", "0", "0", "2", "0", "0">>}}

\* the lines of one task
LinesOfTask(task) ==
    <<task.name>>
    \o (IF task.when = None THEN <<>>
        ELSE <<(<<" ", " ", "w", "h", "e", "n", ":", " ">> \o task.when)>>)

\* _run("when_toggle_alignment", check_when_toggle_alignment, tasks_dir,
\* prefix, rule_id_prefix, benchmark_type) on a tasks directory that holds the
\* one file cat_1/a.yml
CallCheckWhenToggleAlignment ==
    /\ u_pc = "idle"
    /\ \E n \in 1..MaxTasks : \E tasks \in [1..n -> SampleTasks] :
          /\ u_in' = [tasks |-> tasks]
          /\ u_out' = check_when_toggle_alignment(
                          {[dir |-> <<"c", "a", "t", "_", "1">>,
                            fname |-> <<"a", ".", "y", "m", "l">>,
                            readable |-> TRUE,
                            lines |-> Flatten([i \in 1..n |-> LinesOfTask(tasks[i])])]},
                          <<"p">>, <<"R", "-", "2">>, BENCHMARK_STIG)
    /\ u_pc' = "check_when_toggle_alignment"
    /\ UNCHANGED notUnit

\* tasks with tags: the name line, the structured ID the name carries (None
\* when it carries none) and the Rule_IDs of the task's tags, in line order
TaggedTasks ==
    {[name |-> n.name, id |-> n.id, rule_ids |-> r] :
        n \in {[name |-> <<"-", " ", "n", "a", "m", "e", ":", " ", "\"", "H", "I", "G", "H", " ", "|", " ", "R", "-", "2", "-", "0", "0", "0", "1", "0", "0", " ", "|", " ", "a", "\"">>,
                id |-> <<"R", "-", "2", "-", "0", "0", "0", "1", "0", "0">>],
               [name |-> <<"-", " ", "n", "a", "m", "e", ":", " ", "\"", "L", "O", "W", " ", "|", " ", "r", "-", "2", "-", "0", "0", "0", "2", "0", "0", " ", "|", " ", "b", "\"">>,
                id |-> <<"R", "-", "2", "-", "0", "0", "0", "2", "0", "0">>],
               [name |-> <<"-", " ", "n", "a", "m", "e", ":", " ", "h", "e", "l", "p", "e", "r">>, id |-> None]},
        r \in {<<>>, <<<<"S", "V", "-", "1", "r", "1", "_", "r", "u", "l", "e">>>>,
               <<<<"S", "V", "-", "2", "r", "1", "_", "r", "u", "l", "e">>, <<"S", "V", "-", "3", "0", "r", "1", "2", "_", "r", "u", "l", "e">>>>}}

\* the lines of one tagged task
LinesOfTagged(task) ==
    <<task.name>>
    \o (IF task.rule_ids = <<>> THEN <<>> ELSE <<<<" ", " ", "t", "a", "g", "s", ":">>>>)
    \o [i \in 1..Len(task.rule_ids) |-> <<" ", " ", " ", " ", "-", " ">> \o task.rule_ids[i]]

\* task_data = extract_task_data(tasks_dir, benchmark_type, prefix,
\* rule_id_prefix) on a tasks directory that holds the one file cat_1/a.yml
CallExtractTaskData ==
    /\ u_pc = "idle"
    /\ \E n \in 1..MaxTasks : \E tasks \in [1..n -> TaggedTasks] :
          /\ u_in' = [tasks |-> tasks]
          /\ u_out' = extract_task_data(
                          {[dir |-> <<"c", "a", "t", "_", "1">>,
                            fname |-> <<"a", ".", "y", "m", "l">>,
                            readable |-> TRUE,
                            lines |-> Flatten([i \in 1..n |-> LinesOfTagged(tasks[i])])]},
                          BENCHMARK_STIG, <<"p">>, <<"R", "-", "2">>)
    /\ u_pc' = "extract_task_data"
    /\ UNCHANGED notUnit

\* lines of a variables file: toggles of both dialects, a toggle indented by
\* blanks and one by a tab, a toggle in a comment, a toggle of the prefix
\* p_a, a configuration variable
VarLines ==
    {(<<"p", "_", "0", "0", "0", "1", "0", "0", ":", " ", "t", "r", "u", "e">>),
     (<<" ", " ", "p", "_", "0", "0", "0", "2", "0", "0", ":", " ", "f", "a", "l", "s", "e">>),
     (<<"#", " ", "p", "_", "0", "0", "0", "3", "0", "0", ":", " ", "t", "r", "u", "e">>),
     (<<"p", "_", "r", "u", "l", "e", "_", "1", "_", "1", ":", " ", "t", "r", "u", "e">>),
     (<<"p", "_", "a", "_", "0", "0", "0", "1", "0", "0", ":", " ", "x">>),
     (<<"\t", "p", "_", "r", "u", "l", "e", "_", "2", ":", " ", "t", "r", "u", "e">>),
     (<<"p", "_", "m", "o", "d", "e", ":", " ", "2">>)}

\* the prefixes the toggle pattern is built from
VarPrefixes == {<<"p">>, <<"p", "_", "a">>}

\* extract_rule_toggles(filepath, toggle_pat) and
\* extract_config_variables(filepath, prefix, toggle_pat) on one file
CallExtractVariables ==
    /\ u_pc = "idle"
    /\ \E file \in FilesOver(VarLines), toggle_prefix \in VarPrefixes,
          benchmark_type \in {BENCHMARK_STIG, BENCHMARK_CIS} :
          LET toggle_pat == build_toggle_pattern(toggle_prefix, benchmark_type)
          IN  /\ u_in' = [file |-> file, prefix |-> <<"p">>,
                          toggle_pat |-> toggle_pat]
              /\ u_out' =
                    [toggles |-> extract_rule_toggles(file, toggle_pat),
                     config |-> extract_config_variables(file, <<"p">>,
                                                         toggle_pat)]
    /\ u_pc' = "extract_variables"
    /\ UNCHANGED notUnit

\* the longest audit test file of the function harness, in lines
MaxMarkerLines == 3

\* lines of an audit test file, with the numbers of opening (if/range) and
\* closing (end) markers each holds
MarkerLines ==
    {[text |-> <<"{", "{", " ", "i", "f", " ", ".", "V", "a", "r", "s", ".", "p", "_", "0", "0", "0", "1", "0", "0", " ", "}", "}">>, opens |-> 1, closes |-> 0],
     [text |-> <<"{", "{", "-", " ", "r", "a", "n", "g", "e", " ", "$", "k", " ", ":", "=", " ", ".", "V", "a", "r", "s", ".", "l", "i", "s", "t", " ", "}", "}">>, opens |-> 1, closes |-> 0],
     [text |-> <<"{", "{", " ", "e", "n", "d", " ", "}", "}">>, opens |-> 0, closes |-> 1],
     [text |-> <<"{", "{", "-", " ", "e", "n", "d", " ", "-", "}", "}">>, opens |-> 0, closes |-> 1],
     [text |-> <<"{", "{", " ", "e", "l", "s", "e", " ", "}", "}">>, opens |-> 0, closes |-> 0],
     [text |-> <<"{", "{", "i", "f", " ", ".", "a", "}", "}", "x", "{", "{", "e", "n", "d", "}", "}">>, opens |-> 1, closes |-> 1],
     [text |-> <<"t", "i", "t", "l", "e", ":", " ", "f", "r", "i", "e", "n", "d">>, opens |-> 0, closes |-> 0]}

\* the record of the audit file dir/fname with the lines `lines`, as
\* check_goss_block_pairing reads it
MarkerFile(dir, fname, lines) ==
    [dir |-> dir, rank |-> 0, fname |-> fname, readable |-> TRUE,
     if_vars |-> <<>>, rule_id |-> None, meta_id |-> None,
     meta_cat |-> NoneInt, var_refs |-> {},
     opens |-> CountOpens(lines), closes |-> CountCloses(lines)]

\* _run("goss_block_pairing", check_goss_block_pairing, audit_dir) on an
\* audit directory that holds cat_1/t.yml and, when with_goss, a cat_1/goss.yml
\* of one opening marker
CallCheckGossBlockPairing ==
    /\ u_pc = "idle"
    /\ \E n \in 1..MaxMarkerLines : \E lines \in [1..n -> MarkerLines] :
       \E with_goss \in BOOLEAN :
          /\ u_in' = [lines |-> lines, with_goss |-> with_goss]
          /\ u_out' = check_goss_block_pairing(
                {MarkerFile(<<"c", "a", "t", "_", "1">>, <<"t", ".", "y", "m", "l">>,
                            [i \in 1..n |-> lines[i].text])}
                \cup (IF with_goss
                      THEN {MarkerFile(<<"c", "a", "t", "_", "1">>, GOSS_YML,
                                       <<(<<"{", "{", " ", "i", "f", " ", ".", "V", "a", "r", "s", ".", "x", " ", "}", "}">>)>>)}
                      ELSE {}))
    /\ u_pc' = "check_goss_block_pairing"
    /\ UNCHANGED notUnit

----------------------------------------------------------------------------
(* The QA tool (src/Ansible-Lockdown_QA_Repo_Check.py): main() builds a     *)
(* RepoScanner, runs the checks and, with --fix, the AutoFixer.  A file is  *)
(* the sequence of its lines, a line is "ok" or holds a misspelling         *)
(* ("typo"); paths are relative to the role directory, which main makes     *)
(* absolute.                                                                *)

\* the list `checks` of run_all_checks, as <<name, display_name>>
QA_CHECKS ==
    <<(<<"yamllint", "YAML Lint">>),
      (<<"ansiblelint", "Ansible Lint">>),
      (<<"spelling", "Spell Check">>),
      (<<"grammar", "Grammar Check">>),
      (<<"unused_vars", "Unused Variables">>),
      (<<"var_naming", "Variable Naming">>),
      (<<"file_mode", "File Mode Quoting">>),
      (<<"company_naming", "Company Naming">>),
      (<<"audit_template", "Audit Template">>),
      (<<"fqcn", "FQCN Usage">>),
      (<<"rule_coverage", "Rule Coverage">>)>>

CheckNames == {QA_CHECKS[i][1] : i \in DOMAIN QA_CHECKS}

DisplayName(name) ==
    QA_CHECKS[CHOOSE i \in DOMAIN QA_CHECKS : QA_CHECKS[i][1] = name][2]

\* _SUBPROCESS_CHECKS
SUBPROCESS_CHECKS == {"yamllint", "ansiblelint"}

\* the executable each linter check shells out to
ToolOf(name) == IF name = "yamllint" THEN "yamllint" ELSE "ansible-lint"

DEFAULTS_PATH == "defaults/main.yml"

TASKS_PATH == "tasks/main.yml"

TEMPLATE_PATH == "templates/ansible_vars_goss.yml.j2"

\* the files of a role, in sorted order
PathOrder == <<DEFAULTS_PATH, TASKS_PATH, TEMPLATE_PATH>>

Paths == {PathOrder[i] : i \in DOMAIN PathOrder}

\* os.path.isfile(path)
IsFile(disk, path) == path \in DOMAIN disk

\* os.getcwd()
CWD == <<"/", "w">>

\* os.path.isabs(path)
isabs(path) == path # <<>> /\ path[1] = "/"

\* os.path.abspath(path)
abspath(path) == IF isabs(path) THEN path ELSE CWD \o <<"/">> \o path

\* _resolve_directory(user_dir): the directory given with -d, else the
\* current directory
_resolve_directory(user_dir) ==
    IF user_dir # None THEN abspath(user_dir) ELSE abspath(CWD)

\* scanner.directory
Directory == _resolve_directory(k_cfg.directory)

\* os.path.join(scanner.directory, path), kept as the pair of its parts
AbsPath(path) == <<Directory, path>>

\* _relpath(filepath, scanner.directory)
_relpath(filepath) == filepath[2]

\* RepoScanner.read_lines: the cache after the call; a cached path is not
\* read again, a path that cannot be opened is cached as []
read_lines(cache, disk, filepath) ==
    IF filepath \in DOMAIN cache THEN cache
    ELSE [p \in DOMAIN cache \cup {filepath} |->
             IF p # filepath THEN cache[p]
             ELSE IF IsFile(disk, _relpath(filepath))
             THEN disk[_relpath(filepath)] ELSE <<>>]

\* read_lines for every path of a set
RECURSIVE ReadAll(_, _, _)
ReadAll(cache, disk, paths) ==
    IF paths = {} THEN cache
    ELSE LET p == CHOOSE p \in paths : TRUE IN
         ReadAll(read_lines(cache, disk, p), disk, paths \ {p})

\* collect_files(directory, extensions): the files on disk, sorted
collect_files(disk) == SelectSeq(PathOrder, LAMBDA p : IsFile(disk, p))

\* the paths a check passes to read_lines
ReadsOf(name, disk) ==
    IF name \in {"spelling", "grammar", "file_mode", "company_naming",
                 "unused_vars"}
    THEN {p \in Paths : IsFile(disk, p)}
    ELSE IF name = "audit_template"
    THEN (IF IsFile(disk, TEMPLATE_PATH) THEN {TEMPLATE_PATH} ELSE {})
    ELSE IF name = "fqcn"
    THEN {p \in {TASKS_PATH} : IsFile(disk, p)}
    ELSE {p \in {DEFAULTS_PATH, TASKS_PATH} : IsFile(disk, p)}

\* f"Check crashed: {exc}" result of the except branches
CrashResult(name) ==
    CheckResult(DisplayName(name), "FAIL",
                <<Finding("N/A", 0, "Check crashed", "error", name)>>,
                "Internal error")

\* the linter checks without the except subprocess.TimeoutExpired branch: the
\* exception reaches _run_one, which reports a crash
LinterRun_TimeoutUncaught(name, outcome) ==
    IF outcome = "absent"
    THEN CheckResult(DisplayName(name), "SKIP", <<>>,
                     <<ToolOf(name), "not installed">>)
    ELSE IF outcome = "clean"
    THEN CheckResult(DisplayName(name), "PASS", <<>>, "0 issue(s)")
    ELSE IF outcome = "issues"
    THEN CheckResult(DisplayName(name), "FAIL",
                     <<Finding(TASKS_PATH, 1, "issue", "error", name)>>,
                     "1 issue(s)")
    ELSE CrashResult(name)

\* lines 551-566 and 591-606
\* YamlLintCheck.run and AnsibleLintCheck.run; outcome says what the
\* environment does: the tool is absent, times out, reports nothing, reports
\* an issue, or cannot be started (OSError)
LinterRun(name, outcome) ==
    IF outcome = "absent"
    THEN CheckResult(DisplayName(name), "SKIP", <<>>,
                     <<ToolOf(name), "not installed">>)
    ELSE IF outcome = "timeout"
    THEN CheckResult(DisplayName(name), "SKIP", <<>>,
                     <<ToolOf(name), "timed out">>)
    ELSE IF outcome = "clean"
    THEN CheckResult(DisplayName(name), "PASS", <<>>, "0 issue(s)")
    ELSE IF outcome = "issues"
    THEN CheckResult(DisplayName(name), "FAIL",
                     <<Finding(TASKS_PATH, 1, "issue", "error", name)>>,
                     "1 issue(s)")
    ELSE CrashResult(name)

\* SpellCheck.run on the cached lines: one finding per misspelling
SpellFindings(cache, disk) ==
    LET files == collect_files(disk)
        one(fp) ==
            LET lines == cache[AbsPath(fp)] IN
            SelectSeq([num \in 1..Len(lines) |->
                          Finding(fp, num, "Misspelling", "info", "spelling")],
                      LAMBDA f : lines[f.line] = "typo")
    IN  Collect(files, one)

\* cls(self).run() of a sequential check, given the cache after its reads
SequentialRun(name, cache, disk) ==
    IF name = "spelling"
    THEN LET findings == SpellFindings(cache, disk) IN
         CheckResult(DisplayName(name),
                     IF findings = <<>> THEN "PASS" ELSE "WARN",
                     findings, "issue(s)")
    ELSE IF name = "audit_template" /\ ~IsFile(disk, TEMPLATE_PATH)
    THEN CheckResult(DisplayName(name), "SKIP", <<>>,
                     "Goss audit template not found")
    ELSE CheckResult(DisplayName(name), "PASS", <<>>, "0 issue(s)")

\* the checks _run_parallel_checks submits to the pool
Eligible(skip_checks) == SUBPROCESS_CHECKS \ skip_checks

\* RepoScanner.__init__: without --benchmark the prefix is detected from
\* defaults/main.yml, which is read through the cache
Construct ==
    /\ k_pc = "construct"
    /\ k_cache' = IF k_cfg.benchmark THEN k_cache
                  ELSE read_lines(k_cache, k_disk, AbsPath(DEFAULTS_PATH))
    /\ k_pc' = "run_all_checks"
    /\ UNCHANGED <<k_cfg, k_disk, k_futures, k_finished, k_result_map,
                   k_results, notScan>>

\* _run_parallel_checks up to pool.submit: with no eligible check it returns
\* {} at once
Submit ==
    /\ k_pc = "run_all_checks"
    /\ LET eligible == Eligible(k_cfg.skip_checks) IN
       IF eligible = {}
       THEN /\ k_pc' = "sequential"
            /\ UNCHANGED k_futures
       ELSE /\ k_pc' = "pool"
            /\ k_futures' = [name \in eligible |->
                                [state |-> "running", result |-> None]]
    /\ UNCHANGED <<k_cfg, k_disk, k_cache, k_finished, k_result_map,
                   k_results, notScan>>

\* _run_one(name, cls) in a worker thread, to its return
RunOne ==
    /\ k_pc = "pool"
    /\ \E name \in DOMAIN k_futures :
          /\ k_futures[name].state = "running"
          /\ k_futures' =
                [k_futures EXCEPT ![name] =
                    [state |-> "done",
                     result |-> IF k_cfg.tool[name] = "oserror"
                                THEN CrashResult(name)
                                ELSE LinterRun(name, k_cfg.tool[name])]]
          /\ k_finished' = Append(k_finished, name)
    /\ UNCHANGED <<k_pc, k_cfg, k_disk, k_cache, k_result_map, k_results,
                   notScan>>

\* one iteration of the as_completed loop: a finished future delivers its
\* result into result_map
AsCompleted ==
    /\ k_pc = "pool"
    /\ \E name \in DOMAIN k_futures :
          /\ k_futures[name].state = "done"
          /\ k_futures' = [k_futures EXCEPT ![name].state = "delivered"]
          /\ k_result_map' =
                [n \in DOMAIN k_result_map \cup {name} |->
                    IF n = name THEN k_futures[name].result
                    ELSE k_result_map[n]]
    /\ UNCHANGED <<k_pc, k_cfg, k_disk, k_cache, k_finished, k_results,
                   notScan>>

\* _run_parallel_checks returning without waiting for the futures
PoolExit_NoWait ==
    /\ k_pc = "pool"
    /\ k_pc' = "sequential"
    /\ UNCHANGED <<k_cfg, k_disk, k_cache, k_futures, k_finished,
                   k_result_map, k_results, notScan>>

\* lines 529-539
\* the as_completed loop ends, the with block shuts the pool down and
\* _run_parallel_checks returns result_map
PoolExit ==
    /\ k_pc = "pool"
    /\ \A name \in DOMAIN k_futures : k_futures[name].state = "delivered"
    /\ k_pc' = "sequential"
    /\ UNCHANGED <<k_cfg, k_disk, k_cache, k_futures, k_finished,
                   k_result_map, k_results, notScan>>

\* one iteration of the phase 2 loop of run_all_checks
SequentialCheck ==
    /\ k_pc = "sequential"
    /\ Len(k_results) < Len(QA_CHECKS)
    /\ LET name == QA_CHECKS[Len(k_results) + 1][1]
           cache == ReadAll(k_cache, k_disk,
                            {AbsPath(p) : p \in ReadsOf(name, k_disk)})
       IN  IF name \in DOMAIN k_result_map
           THEN /\ k_results' = Append(k_results, k_result_map[name])
                /\ UNCHANGED k_cache
           ELSE IF name \in k_cfg.skip_checks
           THEN /\ k_results' =
                      Append(k_results,
                             CheckResult(DisplayName(name), "SKIP", <<>>,
                                         "Skipped by user"))
                /\ UNCHANGED k_cache
           ELSE IF name \in k_cfg.crash
           THEN /\ k_results' = Append(k_results, CrashResult(name))
                /\ UNCHANGED k_cache
           ELSE /\ k_results' =
                      Append(k_results, SequentialRun(name, cache, k_disk))
                /\ k_cache' = cache
    /\ UNCHANGED <<k_pc, k_cfg, k_disk, k_futures, k_finished, k_result_map,
                   notScan>>

\* return results
ReturnResults ==
    /\ k_pc = "sequential"
    /\ Len(k_results) = Len(QA_CHECKS)
    /\ k_pc' = "checked"
    /\ UNCHANGED <<k_cfg, k_disk, k_cache, k_futures, k_finished,
                   k_result_map, k_results, notScan>>

FIXABLE_CHECKS == {"spelling", "file_mode", "fqcn"}

\* the fixable findings of all results that name the file abs_path
FixableAt(check_results, abs_path) ==
    Collect(check_results,
            LAMBDA r : SelectSeq(r.findings,
                          LAMBDA f : f.check_name \in FIXABLE_CHECKS
                                     /\ f.file = abs_path))

\* the lines of a file after _apply_fix on the lines the findings name
FixedLines(lines, findings) ==
    [i \in 1..Len(lines) |->
        IF lines[i] = "typo" /\ \E j \in 1..Len(findings) : findings[j].line = i
        THEN "ok" ELSE lines[i]]

\* the files AutoFixer.fix_all rewrites
Modified(disk, check_results) ==
    {p \in Paths :
        /\ FixableAt(check_results, p) # <<>>
        /\ IsFile(disk, p)
        /\ FixedLines(disk[p], FixableAt(check_results, p)) # disk[p]}

\* fix_all emptying the whole cache instead of deleting the rewritten files
FixAll_ClearCache ==
    /\ k_pc = "checked"
    /\ IF k_cfg.fix
       THEN LET modified == Modified(k_disk, k_results) IN
            /\ k_disk' = [p \in DOMAIN k_disk |->
                             IF p \in modified
                             THEN FixedLines(k_disk[p], FixableAt(k_results, p))
                             ELSE k_disk[p]]
            /\ k_cache' = IF modified = {} THEN k_cache ELSE EmptyMap
       ELSE UNCHANGED <<k_disk, k_cache>>
    /\ k_pc' = "done"
    /\ UNCHANGED <<k_cfg, k_futures, k_finished, k_result_map, k_results,
                   notScan>>

\* lines 1565-1604 and 1838-1842
\* main after run_all_checks: with --fix, AutoFixer(scanner, results).fix_all()
\* rewrites every file it changed and deletes its cache entry
FixAll ==
    /\ k_pc = "checked"
    /\ IF k_cfg.fix
       THEN LET modified == Modified(k_disk, k_results) IN
            /\ k_disk' = [p \in DOMAIN k_disk |->
                             IF p \in modified
                             THEN FixedLines(k_disk[p], FixableAt(k_results, p))
                             ELSE k_disk[p]]
            /\ k_cache' = [p \in DOMAIN k_cache \ {AbsPath(m) : m \in modified}
                               |-> k_cache[p]]
       ELSE UNCHANGED <<k_disk, k_cache>>
    /\ k_pc' = "done"
    /\ UNCHANGED <<k_cfg, k_futures, k_finished, k_result_map, k_results,
                   notScan>>

\* baseline_data.get("findings", [])
BaselineFindings(baseline_data) ==
    IF "findings" \in DOMAIN baseline_data THEN baseline_data.findings
    ELSE <<>>

\* f["file"] or f["description"] raises KeyError for an entry of the baseline
delta_raises(baseline_data) ==
    \E i \in 1..Len(BaselineFindings(baseline_data)) :
        ~({"file", "description"} \subseteq
              DOMAIN BaselineFindings(baseline_data)[i])

\* baseline_keys
baseline_keys(baseline_data) ==
    {<<BaselineFindings(baseline_data)[i].file,
       BaselineFindings(baseline_data)[i].description>> :
        i \in 1..Len(BaselineFindings(baseline_data))}

\* delta that derives the status from the findings that remain
delta_StatusFromRemaining(check_results, baseline_data) ==
    [i \in 1..Len(check_results) |->
        LET r == check_results[i]
            new_findings ==
                SelectSeq(r.findings,
                          LAMBDA f : <<f.file, f.description>>
                                        \notin baseline_keys(baseline_data))
        IN  IF new_findings # <<>>
            THEN CheckResult(r.name, r.status, new_findings,
                             <<Len(new_findings), "new issue(s)">>)
            ELSE CheckResult(r.name, "PASS", <<>>, <<0, "new issue(s)">>)]

\* lines 1683-1708
\* BaselineManager.delta(results, baseline_data), when it raises nothing
delta(check_results, baseline_data) ==
    [i \in 1..Len(check_results) |->
        LET r == check_results[i]
            new_findings ==
                SelectSeq(r.findings,
                          LAMBDA f : <<f.file, f.description>>
                                        \notin baseline_keys(baseline_data))
        IN  IF new_findings # <<>>
            THEN CheckResult(r.name, r.status, new_findings,
                             <<Len(new_findings), "new issue(s)">>)
            ELSE CheckResult(r.name, r.status, <<>>,
                             IF r.status \in {"PASS", "SKIP"} THEN r.summary
                             ELSE <<0, "new issue(s)">>)]

\* the longest list of results given to delta
MaxResults == 2

\* findings of the QA tool: two in one file, one of them with the
\* description of a finding in another file
SampleFindings ==
    [a1 |-> Finding("tasks/a.yml", 1, "Misspelling", "info", "spelling"),
     a2 |-> Finding("tasks/a.yml", 2, "Use FQCN", "warning", "fqcn"),
     b1 |-> Finding("tasks/b.yml", 3, "Misspelling", "info", "spelling")]

\* results of checks: without findings, and with one or two findings
SampleResults ==
    {CheckResult(n, "PASS", <<>>, "0 issue(s)") :
        n \in {"Spell Check", "FQCN Usage"}}
    \cup {CheckResult(n, "SKIP", <<>>, "Skipped by user") :
        n \in {"Spell Check", "FQCN Usage"}}
    \cup {CheckResult(n, s, fl, "issue(s)") :
        n \in {"Spell Check", "FQCN Usage"}, s \in {"WARN", "FAIL"},
        fl \in {<<SampleFindings.a1>>,
                <<SampleFindings.a1, SampleFindings.a2>>,
                <<SampleFindings.b1, SampleFindings.a1>>,
                <<SampleFindings.a2, SampleFindings.a2>>}}

\* the entry save() writes for a finding
BaselineEntry(f) ==
    [file |-> f.file, line |-> f.line, description |-> f.description,
     severity |-> f.severity, check |-> f.check_name]

\* baseline files: without the findings list, with lists of entries as saved,
\* and with an entry that lacks its file
Baselines ==
    {EmptyMap,
     [findings |-> <<>>],
     [findings |-> <<BaselineEntry(SampleFindings.a1)>>],
     [findings |-> <<BaselineEntry(SampleFindings.a2),
                     BaselineEntry(SampleFindings.a1)>>],
     [findings |-> <<BaselineEntry(SampleFindings.a1),
                     BaselineEntry(SampleFindings.a2),
                     BaselineEntry(SampleFindings.b1)>>],
     [findings |-> <<[description |-> "Misspelling"]>>]}

\* display_results = BaselineManager.delta(results, baseline_data) in main;
\* a KeyError leaves display_results as results
CallDelta ==
    /\ u_pc = "idle"
    /\ \E n \in 0..MaxResults : \E rs \in [1..n -> SampleResults] :
          \E baseline_data \in Baselines :
             /\ u_in' = [results |-> rs, baseline_data |-> baseline_data]
             /\ u_out' = IF delta_raises(baseline_data)
                         THEN [raised |-> "KeyError", display_results |-> rs]
                         ELSE [raised |-> "",
                               display_results |-> delta(rs, baseline_data)]
    /\ u_pc' = "delta"
    /\ UNCHANGED notUnit

\* command lines and environments of the QA tool
ScanConfigs ==
    {[skip_checks |-> s, tool |-> [yamllint |-> y, ansiblelint |-> a],
      benchmark |-> b, fix |-> f, crash |-> c, directory |-> d] :
        s \in {{}, {"yamllint"}, {"spelling", "ansiblelint"},
               {"yamllint", "ansiblelint"}},
        y \in {"absent", "timeout", "clean", "issues", "oserror"},
        a \in {"absent", "timeout", "clean"},
        b \in BOOLEAN, f \in BOOLEAN, c \in {{}, {"grammar"}},
        d \in {None, <<"r">>, <<"/", "w", "/", "r">>}}

\* role directories, as the map from the files that exist to their lines:
\* defaults/main.yml exists (main exits otherwise)
ScanDisks ==
    {[p \in ps |-> IF p = DEFAULTS_PATH THEN d
                   ELSE IF p = TASKS_PATH THEN <<"ok", "typo">> ELSE <<"ok">>] :
        d \in {<<"ok">>, <<"typo", "ok">>},
        ps \in {ps \in SUBSET Paths : DEFAULTS_PATH \in ps}}

\* the QA tool's variables when another specification runs
ScanIdle ==
    /\ k_pc = "idle"
    /\ k_cfg = <<>>
    /\ k_disk = <<>>
    /\ k_cache = <<>>
    /\ k_futures = <<>>
    /\ k_finished = <<>>
    /\ k_result_map = <<>>
    /\ k_results = <<>>

----------------------------------------------------------------------------
(* Specifications *)

InitNorm == NormIdle /\ StatusIdle /\ MainIdle /\ UnitIdle /\ ScanIdle

NextNorm == CallInverse \/ CallForward \/ CallBack

SpecNorm == InitNorm /\ [][NextNorm]_vars

InitStatusSpec == InitStatus /\ NormIdle /\ MainIdle /\ UnitIdle /\ ScanIdle

NextStatus == AppendFinding

SpecStatus == InitStatusSpec /\ [][NextStatus]_vars

\* the function harness: every call starts from the idle state
InitUnit == NormIdle /\ StatusIdle /\ MainIdle /\ UnitIdle /\ ScanIdle

NextUnit ==
    \/ CallAutoDetectPrefix
    \/ CallDetectBenchmarkType
    \/ CallExtractAudit
    \/ CallExtractors
    \/ CallCheckAuditCoverage
    \/ CallCheckRuleToggleSync
    \/ CallCheckVersionConsistency
    \/ CallCheckGossIncludeCoverage
    \/ CallCheckRuleKeyMatch
    \/ CallCheckWhenToggleAlignment
    \/ CallCheckGossBlockPairing
    \/ CallExtractTaskData
    \/ CallExtractVariables
    \/ CallDelta

SpecUnit == InitUnit /\ [][NextUnit]_vars

Init ==
    /\ fs \in Repositories
    /\ args \in CommandLines
    /\ pc = "prefix"
    /\ m_prefix = <<>>
    /\ m_benchmark_type = ""
    /\ m_rule_id_prefix = <<>>
    /\ data = EmptyMap
    /\ results = <<>>
    /\ raised = ""
    /\ exit_code = Running
    /\ NormIdle
    /\ StatusIdle
    /\ UnitIdle
    /\ ScanIdle

Next ==
    \/ DetectPrefix
    \/ DetectType
    \/ DetectRuleIdPrefix
    \/ Extract
    \/ RunRuleToggleSync
    \/ RunAuditCoverage
    \/ RunRuleIdMatch
    \/ RunRuleKeyMatch
    \/ RunCategoryAlignment
    \/ RunVersionConsistency
    \/ RunGossIncludeCoverage
    \/ RunConfigVariableParity
    \/ RunGossTemplateVarSync
    \/ RunAuditVarsCompleteness
    \/ RunToggleValueSync
    \/ RunSeverityDirectory
    \/ RunGossBlockPairing
    \/ RunWhenToggleAlignment
    \/ Report

Spec == Init /\ [][Next]_vars

\* the QA tool from the construction of the scanner to the end of the fixes
InitScan ==
    /\ k_pc = "construct"
    /\ k_cfg \in ScanConfigs
    /\ k_disk \in ScanDisks
    /\ k_cache = EmptyMap
    /\ k_futures = EmptyMap
    /\ k_finished = <<>>
    /\ k_result_map = EmptyMap
    /\ k_results = <<>>
    /\ NormIdle
    /\ StatusIdle
    /\ MainIdle
    /\ UnitIdle

NextScan ==
    \/ Construct
    \/ Submit
    \/ RunOne
    \/ AsCompleted
    \/ PoolExit
    \/ SequentialCheck
    \/ ReturnResults
    \/ FixAll

SpecScan == InitScan /\ [][NextScan]_vars

----------------------------------------------------------------------------
(* Claims about the normalizer, checked under SpecNorm *)

\* t is exactly p + "_" + SuffixWidth decimal digits
WellFormedToggle(t, p) ==
    /\ Len(t) = Len(p) + 1 + SuffixWidth
    /\ \A i \in 1..Len(p) : t[i] = p[i]
    /\ t[Len(p) + 1] = "_"
    /\ \A i \in (Len(p) + 2)..Len(t) : t[i] \in DigitChars

\* k is exactly rp + "-" + SuffixWidth decimal digits, rp a known prefix
WellFormedKey(k, rp) ==
    /\ rp # <<>>
    /\ Len(k) = Len(rp) + 1 + SuffixWidth
    /\ \A i \in 1..Len(rp) : k[i] = rp[i]
    /\ k[Len(rp) + 1] = "-"
    /\ \A i \in (Len(rp) + 2)..Len(k) : k[i] \in DigitChars

\* C1 as stated: in dialect B, for every prefix, every rule-ID prefix and
\* every toggle of the form prefix + "_" + six digits, converting the toggle
\* to a rule key and the key back to a toggle returns the toggle.
C1_InverseLaw_AnyRulePrefix ==
    (n_pc = "round" /\ n_type = BENCHMARK_STIG
        /\ WellFormedToggle(n_toggle, n_prefix))
    => n_back = n_toggle

\* C1 amended: the round trip returns the toggle for every prefix, every
\* NON-EMPTY rule-ID prefix and every well-formed dialect-B toggle.
C1_InverseLaw ==
    (n_pc = "round" /\ n_type = BENCHMARK_STIG /\ n_rp # <<>>
        /\ WellFormedToggle(n_toggle, n_prefix))
    => n_back = n_toggle

C1_Witness ==
    /\ n_pc = "round" /\ n_type = BENCHMARK_STIG /\ n_rp = <<"R", "-", "2">>
    /\ WellFormedToggle(n_toggle, n_prefix)
    /\ n_key = n_rp \o <<"-">> \o SubSeq(n_toggle, Len(n_prefix) + 2, Len(n_toggle))
    /\ n_back = n_toggle

\* C2 as stated: in dialect B, toggle_to_rule_key returns the empty string
\* for every toggle that is not exactly prefix + "_" + six digits, and
\* rule_key_to_toggle returns the empty string for every key that is not
\* rule-ID prefix + "-" + six digits.
C2_RejectMalformed ==
    /\ (n_pc \in {"forward", "round"} /\ n_type = BENCHMARK_STIG
            /\ ~WellFormedToggle(n_toggle, n_prefix))
        => n_key = <<>>
    /\ (n_pc = "inverse" /\ n_type = BENCHMARK_STIG
            /\ ~WellFormedKey(n_key, n_rp))
        => n_back = <<>>

----------------------------------------------------------------------------
(* Claims about status derivation, checked under SpecStatus *)

StatusRank(st) == CASE st = "PASS" -> 0 [] st = "WARN" -> 1 [] st = "FAIL" -> 2

SeverityCount(findings, sev) ==
    Cardinality({i \in 1..Len(findings) : findings[i].severity = sev})

\* C4: the derived status is FAIL if any finding has severity error;
\* otherwise WARN if any finding has severity warning, or if the check is
\* warn-on-any and the list is non-empty (even info-only); otherwise PASS.
C4_StatusRule ==
    LET e == SeverityCount(s_findings, "error")
        w == SeverityCount(s_findings, "warning")
    IN  /\ (s_status = "FAIL") <=> (e > 0)
        /\ (s_status = "WARN") <=>
               (e = 0 /\ (w > 0 \/ (s_warn_on_any /\ s_findings # <<>>)))
        /\ (s_status = "PASS") <=>
               (e = 0 /\ w = 0 /\ ~(s_warn_on_any /\ s_findings # <<>>))

C4_Witness ==
    /\ s_warn_on_any
    /\ Len(s_findings) = 2
    /\ \A i \in 1..Len(s_findings) : s_findings[i].severity = "info"
    /\ s_status = "WARN"

\* C5: appending an error finding gives FAIL; appending a warning finding to
\* a list with no error gives at least WARN; appending any finding never
\* lowers the status.
C5_StatusMonotone ==
    [][s_findings' # s_findings =>
        LET added == s_findings'[Len(s_findings')] IN
        /\ added.severity = "error" => s_status' = "FAIL"
        /\ (added.severity = "warning"
                /\ SeverityCount(s_findings, "error") = 0)
            => StatusRank(s_status') >= StatusRank("WARN")
        /\ StatusRank(s_status') >= StatusRank(s_status)]_vars

C5_Witness ==
    /\ Len(s_findings) >= 3
    /\ s_findings[1].severity = "error"
    /\ s_findings[2].severity = "info"
    /\ s_findings[Len(s_findings)].severity = "warning"
    /\ s_status = "FAIL"

----------------------------------------------------------------------------
(* Claims about a run of the validator, checked under Spec *)

\* the data has been extracted
Extracted == DOMAIN data # {}

\* some result has the status st
AnyStatus(st) == \E i \in 1..Len(results) : results[i].status = st

\* the result of the check `key`, if it has one
ResultsOf(key) == {i \in 1..Len(results) : results[i].name = CHECK_NAMES[key]}

\* main reached its last statement (neither sys.exit(2) for a missing prefix
\* nor an exception ended the run)
Reported == pc = "exit" /\ m_prefix # <<>> /\ raised = ""

\* C3: the empty string is never a join key: a toggle or a file name the
\* normalizer cannot turn into a rule key is left out of every keyed
\* collection (the rule keys built from defaults, the audit-file map), so no
\* audit-coverage finding is ever about the key "".
C3_NoEmptyJoinKey ==
    Extracted =>
        /\ <<>> \notin default_keys(data.defaults_toggles, m_prefix,
                                    m_rule_id_prefix, m_benchmark_type)
        /\ <<>> \notin DOMAIN data.audit_files
        /\ <<>> \notin DOMAIN data.task_data
        /\ \A i \in ResultsOf("audit_coverage") :
               \A j \in 1..Len(results[i].findings) :
                   results[i].findings[j].description.args[1] # <<>>

C3_Witness ==
    /\ Extracted
    /\ ResultsOf("audit_coverage") # {}
    /\ \E toggle \in DOMAIN data.defaults_toggles :
           toggle_to_rule_key(toggle, m_prefix, m_rule_id_prefix,
                              m_benchmark_type) = <<>>

\* C6: every result a check returns is either SKIP with no findings, or has
\* the status _determine_status gives for its findings, with the warn-on-any
\* flag set for every check but Rule Key Consistency.
C6_StatusFromFindings ==
    \A i \in 1..Len(results) :
        LET r == results[i] IN
        \/ r.status = "SKIP" /\ r.findings = <<>>
        \/ r.status = _determine_status(r.findings,
                                        r.name # CHECK_NAMES["rule_key_match"])

C6_Witness ==
    /\ Len(results) = Len(CHECK_ORDER)
    /\ \E i \in ResultsOf("rule_key_match") :
           /\ results[i].status = "FAIL"
           /\ \E j \in 1..Len(results[i].findings) :
                  results[i].findings[j].severity = "info"
    /\ AnyStatus("SKIP") /\ AnyStatus("WARN") /\ AnyStatus("PASS")

\* C7 as stated: a check is SKIP only because it does not apply to the
\* dialect of the run, i.e. only Severity-Directory Alignment and When-Toggle
\* Alignment, and only in a CIS run; never because data is missing or there
\* are fewer version sites than expected.
C7_SkipOnlyByDialect ==
    \A i \in 1..Len(results) :
        results[i].status = "SKIP" =>
            /\ m_benchmark_type = BENCHMARK_CIS
            /\ results[i].name \in {CHECK_NAMES["severity_directory"],
                                    CHECK_NAMES["when_toggle_alignment"]}

\* C8: the run is failing (exit status 2) exactly when some result is FAIL;
\* warning (exit status 1 under --strict, 0 otherwise) exactly when none is
\* FAIL and some is WARN; passing (exit status 0) otherwise.  PASS and SKIP
\* results never change the classification.
C8_RunClassification ==
    Reported =>
        /\ exit_code = 2 <=> AnyStatus("FAIL")
        /\ exit_code = 1 <=>
               (args.strict /\ ~AnyStatus("FAIL") /\ AnyStatus("WARN"))
        /\ exit_code = 0 <=>
               (~AnyStatus("FAIL") /\ (~args.strict \/ ~AnyStatus("WARN")))
        /\ has_errors(results) <=> AnyStatus("FAIL")
        /\ has_warnings(results) <=> AnyStatus("WARN")

C8_Witness ==
    /\ Reported /\ args.strict
    /\ ~AnyStatus("FAIL") /\ AnyStatus("WARN")
    /\ AnyStatus("PASS") /\ AnyStatus("SKIP")
    /\ exit_code = 1

\* C9 as stated: a check that raises is caught: it is recorded as a FAIL
\* result with a single error finding, and the checks after it still run and
\* report.
C9_RaisingCheckCaught ==
    raised # "" =>
        /\ \E i \in ResultsOf(raised) :
               /\ results[i].status = "FAIL"
               /\ Len(results[i].findings) = 1
               /\ results[i].findings[1].severity = "error"
        /\ pc = "exit" =>
               \A k \in 1..Len(CHECK_ORDER) :
                   should_run(CHECK_ORDER[k], args.skip, args.only)
                       => ResultsOf(CHECK_ORDER[k]) # {}

\* C10: when prefix detection returns the empty string the run ends at once
\* with exit status 2: nothing is extracted, no check runs, and no result or
\* finding is ever produced.
C10_NoPrefixNoRun ==
    (pc \notin {"idle", "prefix"} /\ m_prefix = <<>>) =>
        /\ pc = "exit" /\ exit_code = 2
        /\ ~Extracted
        /\ results = <<>>

C10_Witness ==
    /\ pc = "exit" /\ m_prefix = <<>> /\ exit_code = 2
    /\ fs.defaults = DefaultsNoDeclaration
    /\ args.only = {} /\ args.skip = {}

----------------------------------------------------------------------------
(* Claims about single functions, checked under SpecUnit *)

\* the name a line of defaults/main.yml declares at top level, or None
TopLevelName(line) ==
    LET ln == RStrip(line) IN
    IF ln = <<>> \/ ln[1] \in {"#", " ", "\t"} THEN None ELSE DeclaredName(ln)

\* the number of segments of a name
NumSegments(name) == Cardinality({q \in 1..Len(name) : name[q] = "_"}) + 1

\* the first i segments of a name, joined as they were
SegmentPrefix(name, i) ==
    LET us == {q \in 1..Len(name) : name[q] = "_"} IN
    IF i >= NumSegments(name) THEN name
    ELSE Take(name, (CHOOSE q \in us : Cardinality({r \in us : r <= q}) = i) - 1)

\* the votes of a file: <<line, i>> votes for the prefix of i segments of the
\* name the line declares; `whole` says whether a prefix may be the whole name
VotesOf(file, whole) ==
    {v \in (1..Len(file)) \X (1..3) :
        /\ TopLevelName(file[v[1]]) # None
        /\ IF whole THEN v[2] <= NumSegments(TopLevelName(file[v[1]]))
                    ELSE v[2] < NumSegments(TopLevelName(file[v[1]]))}

VotedFor(file, v) == SegmentPrefix(TopLevelName(file[v[1]]), v[2])

\* the candidate with the most votes, the earliest seen among those tied; the
\* empty string without a vote
VoteWinner(file, whole) ==
    LET votes == IF file = NoFile THEN {} ELSE VotesOf(file, whole)
        count(c) == Cardinality({v \in votes : VotedFor(file, v) = c})
        seen(c) == Min({4 * v[1] + v[2] : v \in {w \in votes : VotedFor(file, w) = c}})
        cands == {VotedFor(file, v) : v \in votes}
        top == {c \in cands : \A d \in cands : count(d) <= count(c)}
    IN  IF votes = {} THEN <<>>
        ELSE CHOOSE c \in top : \A d \in top : seen(c) <= seen(d)

HasShapeA(line, prefix) ==
    LET s == Strip(line)
        head == prefix \o <<"_", "r", "u", "l", "e", "_">>
    IN  /\ Len(s) > Len(head)
        /\ SubSeq(s, 1, Len(head)) = head
        /\ s[Len(head) + 1] \in DigitChars

\* the declaration has the dialect-B shape: prefix, "_", exactly six digits,
\* then the colon of the declaration
HasShapeB(line, prefix) ==
    LET s == Strip(line)
        head == prefix \o <<"_">>
        rest == Drop(s, Len(head))
        blanks == RunLen(rest, SuffixWidth + 1, SpaceChars)
    IN  /\ Len(s) > Len(head) + SuffixWidth
        /\ SubSeq(s, 1, Len(head)) = head
        /\ RunLen(rest, 1, DigitChars) = SuffixWidth
        /\ Len(rest) > SuffixWidth + blanks
        /\ rest[SuffixWidth + blanks + 1] = ":"

ShapeCount(file, prefix, Shape(_, _)) ==
    IF file = NoFile THEN 0
    ELSE Cardinality({i \in 1..Len(file) : Shape(file[i], prefix)})

\* C12: detect_benchmark_type returns dialect A (CIS) only when strictly
\* more declarations have the dialect-A shape than the dialect-B shape; with
\* equal counts, no match at all or a missing file it returns dialect B
\* (STIG).
C12_MajorityOrStig ==
    u_pc = "detect_benchmark_type" =>
        LET a == ShapeCount(u_in.defaults_file, u_in.prefix, HasShapeA)
            b == ShapeCount(u_in.defaults_file, u_in.prefix, HasShapeB)
        IN  /\ u_out \in {BENCHMARK_CIS, BENCHMARK_STIG}
            /\ u_out = BENCHMARK_CIS <=> a > b

C12_Witness ==
    /\ u_pc = "detect_benchmark_type"
    /\ ShapeCount(u_in.defaults_file, u_in.prefix, HasShapeA) = 1
    /\ ShapeCount(u_in.defaults_file, u_in.prefix, HasShapeB) = 1
    /\ u_out = BENCHMARK_STIG

\* C13 as stated: for unchanged input files the maps extract_audit_conditionals
\* and extract_audit_files return are the same whatever order the operating
\* system lists the nested directories in.
C13_ListingOrderIrrelevant ==
    u_pc = "extract_audit" =>
        \A listing \in Listings :
            LET tree == Listed(u_in.tree, listing) IN
            /\ u_out.audit_conditionals =
                   extract_audit_conditionals(tree,
                       build_conditional_pattern(u_in.prefix, u_in.benchmark_type))
            /\ u_out.audit_files =
                   extract_audit_files(tree, u_in.benchmark_type, u_in.prefix)

\* C14: an extractor asked to read a file or a directory that does not exist
\* returns an empty map, list or set.
C14_MissingYieldsEmpty ==
    u_pc = "extractors" =>
        /\ u_in.file = NoFile =>
              /\ u_out.rule_toggles = EmptyMap
              /\ u_out.toggle_values = EmptyMap
              /\ u_out.config_variables = EmptyMap
              /\ u_out.template_variables = EmptyMap
              /\ u_out.audit_vars_defined = {}
              /\ u_out.versions = <<>>
              /\ u_out.goss_globs = <<>>
        /\ u_in.audit_dir = {} =>
              /\ u_out.audit_subdirs = <<>>
              /\ u_out.audit_conditionals = EmptyMap
              /\ u_out.audit_files = EmptyMap
              /\ u_out.goss_var_references = EmptyMap
        /\ u_in.tasks_dir = {} => u_out.task_data = EmptyMap

C14_Witness ==
    /\ u_pc = "extractors"
    /\ u_in.file = NoFile
    /\ u_in.audit_dir = {}
    /\ u_in.tasks_dir = {}
    /\ u_out.rule_toggles = EmptyMap
    /\ u_out.task_data = EmptyMap
    /\ u_out.audit_subdirs = <<>>

\* the findings of u_out that satisfy Is
FindingsWhere(Is(_)) ==
    {i \in 1..Len(u_out.findings) : Is(u_out.findings[i])}

\* the rule key of a declared toggle of u_in
KeyOfToggle(toggle) ==
    toggle_to_rule_key(toggle, u_in.prefix, u_in.rule_id_prefix,
                       u_in.benchmark_type)

\* C15 as stated: one warning "Rule has no audit file" for every declared
\* toggle whose rule has no audit-file entry, one warning "Audit file exists
\* but no rule toggle" for every audit-file key no declared toggle maps to,
\* and so no declared toggle without an audit file goes without a finding.
C15_EveryGapOneWarning ==
    u_pc = "check_audit_coverage" =>
        /\ \A toggle \in DOMAIN u_in.defaults_toggles :
              KeyOfToggle(toggle) \notin DOMAIN u_in.audit_files =>
                 Cardinality(FindingsWhere(LAMBDA f :
                     /\ f.severity = "warning"
                     /\ f.description.template = "Rule has no audit file: '{}'"
                     /\ f.line = u_in.defaults_toggles[toggle])) = 1
        /\ \A key \in DOMAIN u_in.audit_files :
              (\A toggle \in DOMAIN u_in.defaults_toggles :
                  KeyOfToggle(toggle) # key) =>
                 Cardinality(FindingsWhere(LAMBDA f :
                     /\ f.severity = "warning"
                     /\ f.description =
                           Desc("Audit file exists but no rule toggle in defaults: '{}'",
                                <<key>>))) = 1

\* the toggles of the declarations map that the audit-conditional map lacks
Unreferenced == DOMAIN u_in.defaults_toggles \ DOMAIN u_in.audit_conditionals

\* C16: check_rule_toggle_sync emits exactly one warning at the
\* pseudo-location '(audit files)' for every toggle that is in the
\* declarations map and not in the audit-conditional map, and no finding at
\* that pseudo-location for any other toggle.
C16_OneWarningPerUnreferenced ==
    u_pc = "check_rule_toggle_sync" =>
        /\ \A toggle \in Unreferenced :
              Cardinality(FindingsWhere(LAMBDA f :
                  /\ f.file = AUDIT_FILES_LOC
                  /\ f.severity = "warning"
                  /\ f.description.args = <<toggle>>)) = 1
        /\ Cardinality(FindingsWhere(LAMBDA f : f.file = AUDIT_FILES_LOC))
              = Cardinality(Unreferenced)

C16_Witness ==
    /\ u_pc = "check_rule_toggle_sync"
    /\ Unreferenced # {}
    /\ DOMAIN u_in.defaults_toggles \cap DOMAIN u_in.audit_conditionals # {}
    /\ DOMAIN u_in.audit_conditionals \ DOMAIN u_in.defaults_toggles # {}
    /\ Cardinality(FindingsWhere(LAMBDA f : f.file = AUDIT_FILES_LOC)) = 1

\* the (major, minor) pair a version string normalizes to
Pair(raw) == major_minor(normalize_version(raw))

\* the sites after the first whose pair differs from the first site's
DifferingSites ==
    {i \in 2..Len(u_in.versions) :
        Pair(u_in.versions[i][2]) # Pair(u_in.versions[1][2])}

\* C17 as stated: given two or more version strings, check_version_consistency
\* returns one error finding for each site whose (major, minor) pair differs
\* from the first site's and no other finding, so none when all pairs are
\* equal, whatever the patch components.
C17_OneErrorPerDifferingSite ==
    (u_pc = "check_version_consistency" /\ Len(u_in.versions) >= 2) =>
        /\ "findings" \in DOMAIN u_out
        /\ Len(u_out.findings) = Cardinality(DifferingSites)
        /\ \A i \in DifferingSites :
              Cardinality(FindingsWhere(LAMBDA f :
                  /\ f.file = u_in.versions[i][1]
                  /\ f.severity = "error")) = 1

\* the assertion files of the tree of u_in, as relative paths
FilesOnDisk ==
    LET walk == AuditWalk(u_in.tree) IN
    {RelPath(walk[i]) : i \in 1..Len(walk)}

\* C18 as stated: every assertion file under the audit category directories
\* whose relative path matches none of the include globs gets exactly one
\* error finding that names it, also when it shares its map key with another
\* file.
C18_EveryUnmatchedFileOneError ==
    u_pc = "check_goss_include_coverage" =>
        \A rel \in FilesOnDisk :
            (\A i \in 1..Len(u_in.goss_globs) : ~fnmatch(rel, u_in.goss_globs[i]))
            => Cardinality(FindingsWhere(LAMBDA f :
                   f.file = rel /\ f.severity = "error")) = 1

\* C19 as stated: an audit assertion file whose file name gives one key and
\* whose metadata declares another rule identifier is named by a finding of
\* check_rule_key_match, whichever of the two became its map key and in
\* either dialect.
C19_DisagreeingFileNamed ==
    u_pc = "check_rule_key_match" =>
        \A f \in u_in.tree :
            (/\ f.readable
             /\ EndsWith(f.fname, YML)
             /\ Truthy(f.meta_id)
             /\ f.meta_id # Stem(f.fname))
            => FindingsWhere(LAMBDA g : g.file = RelPath(f)) # {}

\* the six-digit suffix of a toggle or of a structured ID
Suffix(s) == SubSeq(s, Len(s) - SuffixWidth + 1, Len(s))

\* the number of lines of the task file before task i
RECURSIVE LinesBefore(_)
LinesBefore(i) ==
    IF i = 1 THEN 0
    ELSE LinesBefore(i - 1) + Len(LinesOfTask(u_in.tasks[i - 1]))

\* the line of the task file that holds the condition of task i
WhenLineOf(i) == LinesBefore(i) + 2

\* the tasks whose name carries an ID and whose own condition references a
\* toggle with another suffix
Misaligned ==
    {i \in 1..Len(u_in.tasks) :
        /\ u_in.tasks[i].id # None
        /\ u_in.tasks[i].when # None
        /\ Suffix(u_in.tasks[i].when) # Suffix(u_in.tasks[i].id)}

\* C20 as stated: in dialect B the error findings of
\* check_when_toggle_alignment are exactly one per task whose name carries a
\* structured ID and whose own condition references a toggle of another
\* suffix, at that condition's line; no condition is compared with the ID of
\* an earlier task.
C20_OwnTaskOnly ==
    u_pc = "check_when_toggle_alignment" =>
        /\ Len(u_out.findings) = Cardinality(Misaligned)
        /\ \A i \in Misaligned :
              FindingsWhere(LAMBDA f :
                  f.severity = "error" /\ f.line = WhenLineOf(i)) # {}

\* the number of markers of one kind in the lines of u_in
RECURSIVE Markers(_, _)
Markers(kind, n) ==
    IF n = 0 THEN 0 ELSE u_in.lines[n][kind] + Markers(kind, n - 1)

NumOpening == Markers("opens", Len(u_in.lines))

NumClosing == Markers("closes", Len(u_in.lines))

\* C21: check_goss_block_pairing emits for an audit assertion file exactly one
\* warning finding, stating both counts, when the number of opening markers
\* (if/range) differs from the number of closing markers (end), and no finding
\* for the file when they are equal.
C21_OneWarningPerUnbalancedFile ==
    u_pc = "check_goss_block_pairing" =>
        IF NumOpening # NumClosing
        THEN /\ Len(u_out.findings) = 1
             /\ u_out.findings[1].file = <<"c", "a", "t", "_", "1", "/", "t", ".", "y", "m", "l">>
             /\ u_out.findings[1].severity = "warning"
             /\ u_out.findings[1].description.args
                    = <<Str(NumOpening), Str(NumClosing)>>
        ELSE u_out.findings = <<>>

C21_Witness ==
    /\ u_pc = "check_goss_block_pairing"
    /\ NumOpening = 2
    /\ NumClosing = 1
    /\ u_in.with_goss
    /\ Len(u_out.findings) = 1
    /\ u_out.findings[1].description.args = <<(<<"2">>), (<<"1">>)>>

----------------------------------------------------------------------------
(* The QA tool: linters, cache, order of results *)

\* the position of a check in the declared list
IndexOf(name) == CHOOSE i \in DOMAIN QA_CHECKS : QA_CHECKS[i][1] = name

\* run_all_checks has returned
Returned == k_pc \in {"checked", "done"}

\* the linter checks that ran and found their tool absent or timing out
Degraded ==
    {name \in Eligible(k_cfg.skip_checks) :
        k_cfg.tool[name] \in {"absent", "timeout"}}

\* C22: when an external linter is not installed or times out, its check
\* yields a SKIP result with an explanatory summary and no findings, and
\* every other check still runs and reports: the run returns one result for
\* each check, the other linter reports what its own run gave, and each
\* sequential check that was not skipped reports the outcome of its own run.
C22_LinterDegradesToSkip ==
    (Returned /\ Degraded # {}) =>
        /\ \A name \in Degraded :
              LET r == k_results[IndexOf(name)] IN
              /\ r.name = DisplayName(name)
              /\ r.status = "SKIP"
              /\ r.findings = <<>>
              /\ r.summary = <<ToolOf(name),
                               IF k_cfg.tool[name] = "absent"
                               THEN "not installed" ELSE "timed out">>
        /\ Len(k_results) = Len(QA_CHECKS)
        /\ \A name \in CheckNames \ Degraded :
              LET r == k_results[IndexOf(name)] IN
              /\ r.name = DisplayName(name)
              /\ name \in k_cfg.skip_checks => r.summary = "Skipped by user"
              /\ name \in Eligible(k_cfg.skip_checks) =>
                    /\ r = k_futures[name].result
                    /\ r.status \in {"PASS", "FAIL"}
              /\ (name \notin SUBPROCESS_CHECKS \cup k_cfg.skip_checks
                                                 \cup k_cfg.crash) =>
                    /\ r.status \in {"PASS", "WARN", "SKIP"}
                    /\ k_pc = "checked" =>
                          r = SequentialRun(name, k_cache, k_disk)

\* one linter is absent, the other timed out, and the spell check reported
\* its misspellings
C22_Witness ==
    /\ k_pc = "checked"
    /\ k_cfg.skip_checks = {}
    /\ k_cfg.tool["yamllint"] = "absent"
    /\ k_cfg.tool["ansiblelint"] = "timeout"
    /\ k_results[1].status = "SKIP"
    /\ k_results[2].status = "SKIP"
    /\ k_results[3].status = "WARN"

\* every key of the cache is an absolute path
KeysAbsolute == \A p \in DOMAIN k_cache : isabs(p[1])

\* the step leaves the cache entry of p as it is
EntryKept(p) == p \in DOMAIN k_cache' /\ k_cache'[p] = k_cache[p]

\* the step is the fix that follows the checks
FixStep == k_pc = "checked" /\ k_pc' = "done" /\ k_cfg.fix

\* C23 as stated: the cache is keyed by absolute path and no step of the
\* run (read, check or fix) removes or replaces an entry it holds.
C23_EntryNeverRemoved ==
    [][KeysAbsolute' /\ \A p \in DOMAIN k_cache : EntryKept(p)]_vars

\* C23, amended: the cache is keyed by absolute path and no read or check
\* removes or replaces an entry it holds; the fix that follows the checks
\* removes the entry of each file it rewrites and keeps every other entry.
C23_EntryKeptUntilFix ==
    [][/\ KeysAbsolute'
       /\ \A p \in DOMAIN k_cache :
             IF FixStep /\ _relpath(p) \in Modified(k_disk, k_results)
             THEN p \notin DOMAIN k_cache'
             ELSE EntryKept(p)]_vars

\* a run given a relative directory has fixed the misspellings: the cache
\* has lost the entry of a rewritten file and kept the entry of another
C23_Witness ==
    /\ k_pc = "done"
    /\ k_cfg.fix
    /\ k_cfg.directory = <<"r">>
    /\ k_cfg.skip_checks = {}
    /\ k_cfg.crash = {}
    /\ Len(k_results[3].findings) > 0
    /\ AbsPath(TASKS_PATH) \notin DOMAIN k_cache
    /\ AbsPath(TEMPLATE_PATH) \in DOMAIN k_cache

----------------------------------------------------------------------------
(* Extractors: which occurrence is recorded *)

\* the positions in the traversal of the files whose conditionals reference t
FilesReferencing(t) ==
    LET walk == AuditWalk(u_in.tree)
        cond_pat == build_conditional_pattern(u_in.prefix, u_in.benchmark_type)
    IN  {i \in 1..Len(walk) : t \in SeqToSet(CondToggles(cond_pat, walk[i]))}

\* C24 as stated: extract_audit_conditionals maps every toggle to the file of
\* its first occurrence in traversal order; a later file that references the
\* same toggle does not replace it.
C24_FirstOccurrenceWins ==
    u_pc = "extract_audit" =>
        \A t \in DOMAIN u_out.audit_conditionals :
            u_out.audit_conditionals[t] =
                RelPath(AuditWalk(u_in.tree)[Min(FilesReferencing(t))])

\* the Rule_IDs tagged in the tasks of the input that name the key
OwnRuleIds(key) ==
    Flatten([i \in 1..Len(u_in.tasks) |->
                IF u_in.tasks[i].id = key THEN u_in.tasks[i].rule_ids
                ELSE <<>>])

\* C25 as stated: the Rule_ID extract_task_data records for a key is the
\* first one found after the key inside a task that names the key; a Rule_ID
\* of a later task that names no key is never attached to the earlier key.
C25_RuleIdFromOwnTask ==
    u_pc = "extract_task_data" =>
        \A key \in DOMAIN u_out :
            u_out[key].rule_id =
                IF OwnRuleIds(key) = <<>> THEN None ELSE OwnRuleIds(key)[1]

\* the line is unindented and is not a comment
TopLevelLine(line) == line # <<>> /\ line[1] \notin {" ", "\t", "#"}

\* C26 as stated: extract_rule_toggles records a toggle only from an
\* unindented line that is not a comment: the line every entry of the map
\* points to is such a line.
C26_OnlyUnindentedLines ==
    u_pc = "extract_variables" =>
        \A name \in DOMAIN u_out.toggles :
            TopLevelLine(u_in.file[u_out.toggles[name]])

\* C27: no variable name is both in the map extract_config_variables returns
\* and in the map extract_rule_toggles returns for the same file and the
\* same compiled toggle pattern.
C27_ConfigHoldsNoToggle ==
    u_pc = "extract_variables" =>
        DOMAIN u_out.config \cap DOMAIN u_out.toggles = {}

\* both maps have entries, and a recorded toggle line has the form of a
\* configuration variable of the prefix
C27_Witness ==
    /\ u_pc = "extract_variables"
    /\ DOMAIN u_out.config # {}
    /\ \E name \in DOMAIN u_out.toggles :
          ConfigMatch(Strip(u_in.file[u_out.toggles[name]]), u_in.prefix)
              # None

\* every check the pool was given has delivered its result into result_map
AllDelivered ==
    /\ \A name \in DOMAIN k_futures : k_futures[name].state = "delivered"
    /\ \A name \in DOMAIN k_futures :
          name \in DOMAIN k_result_map
          /\ k_result_map[name] = k_futures[name].result

\* C28: run_all_checks returns exactly one CheckResult per configured check
\* in the declared order of the check list, whatever order the linter checks
\* finished in, each linter's place holding that linter's own result; the
\* sequential phase has produced nothing while a parallel check is still to
\* deliver.
C28_DeclaredOrder ==
    /\ Returned =>
          /\ Len(k_results) = Len(QA_CHECKS)
          /\ \A i \in DOMAIN QA_CHECKS :
                /\ k_results[i].name = QA_CHECKS[i][2]
                /\ QA_CHECKS[i][1] \in DOMAIN k_futures =>
                      k_results[i] = k_futures[QA_CHECKS[i][1]].result
    /\ (k_pc = "sequential" \/ k_results # <<>>) => AllDelivered
    /\ k_pc = "pool" => k_results = <<>>

\* both linters ran, the second of the list finished first, and the run has
\* returned
C28_Witness ==
    /\ Returned
    /\ k_finished = <<"ansiblelint", "yamllint">>
    /\ k_results[1].status = "FAIL"
    /\ k_results[2].status = "PASS"

----------------------------------------------------------------------------
(* Prefix detection: the shape of the result *)

\* the text of name before its first "_", the whole of a name without one
FirstSegment(name) ==
    LET us == {q \in 1..Len(name) : name[q] = "_"} IN
    IF us = {} THEN name ELSE Take(name, Min(us) - 1)

\* the names the top-level lines of the file declare
DeclaredNames(file) ==
    {DeclaredName(RStrip(file[i])) :
        i \in {j \in 1..Len(file) :
                  /\ TopLevelLine(file[j])
                  /\ DeclaredName(RStrip(file[j])) # None}}

\* C29: the prefix auto_detect_prefix returns never contains the delimiter
\* "_"; it is the first segment of a name that a top-level line of the file
\* declares, or the empty string.
C29_ResultIsFirstSegment ==
    u_pc = "auto_detect_prefix" =>
        /\ \A i \in 1..Len(u_out) : u_out[i] # "_"
        /\ \/ u_out = <<>>
           \/ /\ u_in.defaults_file # NoFile
              /\ \E name \in DeclaredNames(u_in.defaults_file) :
                    u_out = FirstSegment(name)

\* a candidate of three segments has as many votes as its one-segment
\* ancestor, which is returned
C29_Witness ==
    /\ u_pc = "auto_detect_prefix"
    /\ u_in.defaults_file = <<(<<"f", "o", "o", ":">>),
                              (<<"a", "_", "b", "_", "c", "_", "d", ":">>),
                              (<<"a", "_", "b", "_", "c", ":">>)>>
    /\ u_out = <<"a">>

----------------------------------------------------------------------------
(* Baseline delta *)

\* the finding's (file, description) pair is in the baseline
InBaseline(f) ==
    \E i \in 1..Len(u_in.baseline_data.findings) :
        /\ u_in.baseline_data.findings[i].file = f.file
        /\ u_in.baseline_data.findings[i].description = f.description

\* the positions of the findings of the i-th input result that are not in
\* the baseline
NewAt(i) ==
    {j \in 1..Len(u_in.results[i].findings) :
        "findings" \notin DOMAIN u_in.baseline_data
        \/ ~InBaseline(u_in.results[i].findings[j])}

\* the k-th smallest element of a set of positions
KthOf(S, k) == CHOOSE j \in S : Cardinality({m \in S : m <= j}) = k

\* C30: BaselineManager.delta returns one result per input result, in the
\* same order, with the same name and the same status, whose findings are
\* exactly the input findings whose (file, description) pair is not in the
\* baseline, in their original order; the status stays as it was even when
\* no finding remains.
C30_DeltaKeepsStatus ==
    (u_pc = "delta" /\ u_out.raised = "") =>
        /\ Len(u_out.display_results) = Len(u_in.results)
        /\ \A i \in 1..Len(u_in.results) :
              LET r == u_in.results[i]
                  d == u_out.display_results[i]
              IN  /\ d.name = r.name
                  /\ d.status = r.status
                  /\ Len(d.findings) = Cardinality(NewAt(i))
                  /\ \A k \in 1..Len(d.findings) :
                        d.findings[k] = r.findings[KthOf(NewAt(i), k)]

\* of two failing results, one has lost every finding to the baseline and is
\* still FAIL, the other has kept its second finding only
C30_Witness ==
    /\ u_pc = "delta"
    /\ u_out.raised = ""
    /\ Len(u_in.results) = 2
    /\ u_in.results[1].findings = <<SampleFindings.a1>>
    /\ u_out.display_results[1].findings = <<>>
    /\ u_out.display_results[1].status = "FAIL"
    /\ u_in.results[2].findings = <<SampleFindings.a1, SampleFindings.a2>>
    /\ u_out.display_results[2].findings = <<SampleFindings.a2>>

====
